---- MODULE Spec2Model ----
(***************************************************************************)
(* State-machine model of the voxel sandbox game (MinecraftGame,           *)
(* CameraController, VoxelChunk, DroppedItems).                            *)
(*                                                                         *)
(* Numbers.  Lengths are fixed point: U units per block (1e-6 block).      *)
(* Velocities are units per second, frame deltas are milliseconds, move    *)
(* vectors and ray directions are per-mille.  Math.floor is \div, which    *)
(* rounds towards minus infinity.                                          *)
(***************************************************************************)
EXTENDS Integers, Sequences, FiniteSets, TLC

VARIABLES
  world, worldVersion,                              \* worldRef, worldVersion
  gen,                                              \* generateTerrain's locals
  pos, velY, onGround, ticks, lastMove,             \* CameraController
  buildIdRef, chunkVersion, buildTimers, geo, lastBuild,  \* VoxelChunk
  renderer,                                         \* the mesh element and the GPU
  camRef, holdTouchPos, isHolding, lookTouch,
  miningRef, miningProgress, miningActive, rafRef, rafPending,
  curStartTimer, oldStartTimers, retargetTimers,
  droppedItems, nextId, inventory, inventoryRef, selectedIndex,
  craftingTableOpen, rayResult, lastOp,
  screen                                            \* InventoryScreen's state

worldVars == <<world, worldVersion, gen>>
physVars == <<pos, velY, onGround, ticks, lastMove>>
meshVars == <<buildIdRef, chunkVersion, buildTimers, geo, lastBuild, renderer>>
inputVars == <<camRef, holdTouchPos, isHolding, lookTouch>>
miningVars == <<miningRef, miningProgress, miningActive, rafRef, rafPending>>
timerVars == <<curStartTimer, oldStartTimers, retargetTimers>>
itemVars == <<droppedItems, nextId, inventory, inventoryRef, selectedIndex,
              craftingTableOpen, screen>>
gameVars == <<inputVars, miningVars, timerVars, itemVars, rayResult, lastOp>>
vars == <<worldVars, physVars, meshVars, gameVars>>

U == 1000 * 1000
NoGen == [phase |-> "none"]
Floor(v) == v \div U
Ceil(v) == 0 - ((0 - v) \div U)
Abs(v) == IF v < 0 THEN 0 - v ELSE v
Min(a, b) == IF a < b THEN a ELSE b
Max(a, b) == IF a > b THEN a ELSE b

\* ---- terrain.ts: block types and the world map --------------------------
AIR == 0
GRASS == 1
DIRT == 2
STONE == 3
WOOD == 4
SAND == 5
WATER == 6
LEAVES == 7
SNOW == 8
PLANKS == 9

posKey(x, y, z) == <<x, y, z>>
has(w, key) == key \in DOMAIN w

\* ---- collision helpers ----------------------------------------------------
EYE == (162 * U) \div 100
HALF == (3 * U) \div 10
HEAD == (18 * U) \div 100
PLAYER_HEIGHT == EYE + HEAD

isSolid(w, x, y, z) ==
  LET key == posKey(x, y, z)
  IN  has(w, key) /\ w[key] # AIR /\ w[key] # WATER

aabbOverlaps(px, feetY, pz, w) ==
  LET x0 == Floor(px - HALF)
      x1 == Floor(px + HALF)
      z0 == Floor(pz - HALF)
      z1 == Floor(pz + HALF)
      y0 == Floor(feetY)
      y1 == Floor(feetY + PLAYER_HEIGHT - (U \div 100))
  IN  \E bx \in x0..x1 : \E bz \in z0..z1 : \E by \in y0..y1 :
        isSolid(w, bx, by, bz)

\* one of the four bottom corners of the box is over a solid block at level by
cornerSolid(px, pz, by, w) ==
  \/ isSolid(w, Floor(px - HALF), by, Floor(pz - HALF))
  \/ isSolid(w, Floor(px + HALF), by, Floor(pz - HALF))
  \/ isSolid(w, Floor(px - HALF), by, Floor(pz + HALF))
  \/ isSolid(w, Floor(px + HALF), by, Floor(pz + HALF))

isOnGround(px, feetY, pz, w) ==
  LET by == Floor(feetY - (U \div 1000))
      topOfBlock == (by + 1) * U
  IN  IF Abs(feetY - topOfBlock) > U \div 100 THEN FALSE
      ELSE cornerSolid(px, pz, by, w)

\* the binary search of moveY: 10 halvings, lo is always a non-overlapping offset
RECURSIVE bisect(_, _, _, _, _, _, _, _)
bisect(px, feetY, pz, sign, lo, hi, i, w) ==
  IF i = 0 THEN lo
  ELSE LET mid == (lo + hi) \div 2
       IN  IF aabbOverlaps(px, feetY + sign * mid, pz, w)
           THEN bisect(px, feetY, pz, sign, lo, mid, i - 1, w)
           ELSE bisect(px, feetY, pz, sign, mid, hi, i - 1, w)

\* the block tops crossed on the way down on which the player can land
landings(px, feetY, pz, newFeetY, w) ==
  { by \in Floor(newFeetY)..Floor(feetY) :
      /\ by * U <= feetY
      /\ by * U >= newFeetY
      /\ cornerSolid(px, pz, by - 1, w)
      /\ ~aabbOverlaps(px, by * U, pz, w) }

\* a moveY whose resting branch moves the feet onto the block top
moveYRestSnaps(px, feetY, pz, dy, vy, w) ==
  IF dy <= 0 /\ isOnGround(px, feetY, pz, w) /\ vy <= 0
  THEN [feetY |-> (Floor(feetY - (U \div 1000)) + 1) * U, velY |-> 0,
        onGround |-> TRUE, branch |-> "rest"]
  ELSE
  LET newFeetY == feetY + dy
  IN  IF ~aabbOverlaps(px, newFeetY, pz, w)
      THEN LET tops == landings(px, feetY, pz, newFeetY, w)
           IN  IF dy <= 0 /\ tops # {}
               THEN LET by == CHOOSE b \in tops : \A c \in tops : c <= b
                    IN  [feetY |-> by * U, velY |-> 0, onGround |-> TRUE,
                         branch |-> "land"]
               ELSE [feetY |-> newFeetY, velY |-> vy, onGround |-> FALSE,
                     branch |-> "free"]
      ELSE
      LET sign == IF dy > 0 THEN 1 ELSE 0 - 1
          lo == bisect(px, feetY, pz, sign, 0, Abs(dy), 10, w)
          safeFeetY == feetY + sign * lo
          snapped == Ceil(safeFeetY - (U \div 1000)) * U
      IN  IF dy <= 0
          THEN IF ~aabbOverlaps(px, snapped, pz, w)
               THEN [feetY |-> snapped, velY |-> 0, onGround |-> TRUE,
                     branch |-> "snap"]
               ELSE [feetY |-> safeFeetY, velY |-> 0, onGround |-> TRUE,
                     branch |-> "stop"]
          ELSE [feetY |-> safeFeetY, velY |-> 0, onGround |-> FALSE,
                branch |-> "ceiling"]

moveY(px, feetY, pz, dy, vy, w) ==
  IF dy <= 0 /\ isOnGround(px, feetY, pz, w) /\ vy <= 0
  THEN [feetY |-> feetY, velY |-> 0, onGround |-> TRUE, branch |-> "rest"]
  ELSE
  LET newFeetY == feetY + dy
  IN  IF ~aabbOverlaps(px, newFeetY, pz, w)
      THEN LET tops == landings(px, feetY, pz, newFeetY, w)
           IN  IF dy <= 0 /\ tops # {}
               THEN LET by == CHOOSE b \in tops : \A c \in tops : c <= b
                    IN  [feetY |-> by * U, velY |-> 0, onGround |-> TRUE,
                         branch |-> "land"]
               ELSE [feetY |-> newFeetY, velY |-> vy, onGround |-> FALSE,
                     branch |-> "free"]
      ELSE
      LET sign == IF dy > 0 THEN 1 ELSE 0 - 1
          lo == bisect(px, feetY, pz, sign, 0, Abs(dy), 10, w)
          safeFeetY == feetY + sign * lo
          snapped == Ceil(safeFeetY - (U \div 1000)) * U
      IN  IF dy <= 0
          THEN IF ~aabbOverlaps(px, snapped, pz, w)
               THEN [feetY |-> snapped, velY |-> 0, onGround |-> TRUE,
                     branch |-> "snap"]
               ELSE [feetY |-> safeFeetY, velY |-> 0, onGround |-> TRUE,
                     branch |-> "stop"]
          ELSE [feetY |-> safeFeetY, velY |-> 0, onGround |-> FALSE,
                branch |-> "ceiling"]

\* ---- World store --------------------------------------------------------
MaxVersion == 2

\* mutateWorld(fn): fn(worldRef.current) then setWorldVersion(v => v + 1);
\* w is the map fn leaves behind
\* a write to the map that leaves the version alone
mutateWorldSilent(w) ==
  /\ worldVersion < MaxVersion
  /\ world' = w
  /\ worldVersion' = worldVersion
  /\ gen' = gen

mutateWorld(w) ==
  /\ worldVersion < MaxVersion
  /\ world' = w
  /\ worldVersion' = worldVersion + 1
  /\ gen' = gen

\* w => w.set(key, bt) and w => w.delete(key)
mapSet(w, key, bt) == [k \in DOMAIN w \cup {key} |-> IF k = key THEN bt ELSE w[k]]
\* a delete that removes nothing
mapDeleteNothing(w, key) == w
mapDelete(w, key) == [k \in DOMAIN w \ {key} |-> w[k]]

\* ---- Mesh builder and VoxelChunk -----------------------------------------
FACES == << <<0, 1, 0>>, <<0, 0 - 1, 0>>, <<1, 0, 0>>, <<0 - 1, 0, 0>>,
            <<0, 0, 1>>, <<0, 0, 0 - 1>> >>

\* world.get(key) ?? AIR
getOrAir(w, key) == IF has(w, key) THEN w[key] ELSE AIR

\* a mesh builder without the rule for two leaves
buildMeshLeafFaces(w) ==
  { q \in {<<k[1], k[2], k[3], f>> : k \in DOMAIN w, f \in 1..6} :
      LET key == posKey(q[1], q[2], q[3])
          dir == FACES[q[4]]
          neighbor == getOrAir(w, posKey(q[1] + dir[1], q[2] + dir[2], q[3] + dir[3]))
      IN  /\ w[key] # AIR
          /\ neighbor = AIR \/ neighbor = LEAVES }

\* the quads of buildMesh, one <<x, y, z, f>> per emitted face
buildMesh(w) ==
  { q \in {<<k[1], k[2], k[3], f>> : k \in DOMAIN w, f \in 1..6} :
      LET key == posKey(q[1], q[2], q[3])
          dir == FACES[q[4]]
          neighbor == getOrAir(w, posKey(q[1] + dir[1], q[2] + dir[2], q[3] + dir[3]))
      IN  /\ w[key] # AIR
          /\ neighbor = AIR \/ neighbor = LEAVES
          /\ ~(w[key] = LEAVES /\ neighbor = LEAVES) }

NoVersion == 0 - 1
NoGeo == [id |-> 0, version |-> NoVersion, built |-> NoVersion, mesh |-> {}]

\* the effect without its staleness mechanism: the build id is not advanced
\* and the previous timer is not cleared
VoxelChunkEffectNaive ==
  /\ chunkVersion # worldVersion
  /\ chunkVersion' = worldVersion
  /\ buildIdRef' = buildIdRef
  /\ buildTimers' = buildTimers \cup {[id |-> buildIdRef, version |-> worldVersion]}
  /\ UNCHANGED <<geo, lastBuild, renderer, worldVars, physVars, gameVars>>

\* the effect with an empty dependency list: it runs on mount only
VoxelChunkEffectOnMount ==
  /\ chunkVersion = NoVersion
  /\ chunkVersion' = worldVersion
  /\ buildIdRef' = buildIdRef + 1
  /\ buildTimers' = {[id |-> buildIdRef + 1, version |-> worldVersion]}
  /\ UNCHANGED <<geo, lastBuild, renderer, worldVars, physVars, gameVars>>

\* the effect without its cleanup: the timer of the previous run stays
VoxelChunkEffectKeepsTimer ==
  /\ chunkVersion # worldVersion
  /\ chunkVersion' = worldVersion
  /\ buildIdRef' = buildIdRef + 1
  /\ buildTimers' = buildTimers \cup {[id |-> buildIdRef + 1, version |-> worldVersion]}
  /\ UNCHANGED <<geo, lastBuild, renderer, worldVars, physVars, gameVars>>

\* useEffect(..., [version]) of VoxelChunk: cleanup of the previous run
\* (clearTimeout of its timer), then id = ++buildIdRef.current and setTimeout
VoxelChunkEffect ==
  /\ chunkVersion # worldVersion
  /\ chunkVersion' = worldVersion
  /\ buildIdRef' = buildIdRef + 1
  /\ buildTimers' = {t \in buildTimers : t.version # chunkVersion}
                      \cup {[id |-> buildIdRef + 1, version |-> worldVersion]}
  /\ UNCHANGED <<geo, lastBuild, renderer, worldVars, physVars, gameVars>>

\* the mesh element's geometry prop as last committed (0: no mesh element),
\* the geometries dispose() was called on, the geometry the last frame drew
\* and whether dispose() had been called on it by then
NoRenderer == [geometry |-> 0, disposed |-> {}, drawn |-> 0, drewDisposed |-> FALSE]

\* prev?.dispose()
disposeOf(prev, disposed) ==
  IF prev = NoGeo THEN disposed ELSE disposed \cup {prev.id}

\* the setTimeout callback of one effect run, with the render that follows
\* setGeo: the updater is called in that render
BuildTimer(t) ==
  /\ t \in buildTimers
  /\ buildTimers' = buildTimers \ {t}
  /\ IF t.id # buildIdRef
     THEN /\ lastBuild' = "stale"
          /\ UNCHANGED <<geo, renderer>>
     ELSE /\ lastBuild' = "applied"
          /\ geo' = [id |-> t.id, version |-> t.version, built |-> worldVersion,
                     mesh |-> buildMesh(world)]
          /\ renderer' = [renderer EXCEPT !.geometry = t.id,
                                          !.disposed = disposeOf(geo, @)]
  /\ UNCHANGED <<buildIdRef, chunkVersion, worldVars, physVars, gameVars>>

InitMesh ==
  /\ buildIdRef = 0
  /\ chunkVersion = NoVersion
  /\ buildTimers = {}
  /\ geo = NoGeo
  /\ lastBuild = "none"
  /\ renderer = NoRenderer

\* ---- MinecraftGame: state after construction ----------------------------
HOTBAR_SIZE == 9
STORAGE_SIZE == 27
TOTAL_SLOTS == HOTBAR_SIZE + STORAGE_SIZE

\* blockType: null
NullType == 0 - 1
EmptySlot == [blockType |-> NullType, count |-> 0]
createFullInventory == [i \in 0..(TOTAL_SLOTS - 1) |-> EmptySlot]

\* ---- InventoryScreen: state after mounting -------------------------------
\* selectedIndex: null
NullIndex == 0 - 1
NoSplit == [active |-> FALSE, index |-> 0, blockType |-> NullType, total |-> 0,
            selected |-> 0]
\* longPressTimer.current with the slot its callback closed over
NoLongPress == [armed |-> FALSE, index |-> 0, blockType |-> NullType, count |-> 0]
CRAFT_SLOTS == 4
\* the useState and useRef initial values; maxStack is the imported MAX_STACK,
\* pointer the slot the pointer went down on, open whether the screen is
\* mounted
ScreenWith(m) ==
  [selectedIndex |-> NullIndex, splitState |-> NoSplit, heldItems |-> EmptySlot,
   isSplitPick |-> FALSE, isSplitting |-> FALSE, longPressTimer |-> NoLongPress,
   craftSlots |-> [i \in 0..(CRAFT_SLOTS - 1) |-> EmptySlot],
   pointer |-> NullIndex, maxStack |-> m, open |-> TRUE]
\* the screen not mounted
NoScreen == [ScreenWith(64) EXCEPT !.open = FALSE]

\* camRef as indices into the yaw and pitch tables; {yaw: 0, pitch: 0}
YawTable == << <<0, 1000>>, <<1000, 0>>, <<0 - 1000, 0>>, <<707, 707>> >>
PitchTable == << <<0 - 985, 170>>, <<0 - 707, 707>>, <<0, 1000>>, <<707, 707>>,
                 <<985, 170>> >>
LevelPitch == 3
CamZero == [yaw |-> 1, pitch |-> LevelPitch]

\* screen points of a touch: the corner {x: 0, y: 0}, the centre of the
\* screen, and a point below the centre
ScreenCorner == 0
ScreenCentre == 1
ScreenBelow == 2

\* miningRef.current = null, lookTouchRef.current = null
NoMining == [active |-> FALSE, targetKey |-> <<0, 0, 0>>, blockType |-> AIR,
             elapsed |-> 0, screen |-> NullType]
NoTouch == [active |-> FALSE, start |-> ScreenCorner, startCam |-> CamZero,
            far |-> FALSE, long |-> FALSE]
NoHit == [hit |-> FALSE, x |-> 0, y |-> 0, z |-> 0,
          placeX |-> 0, placeY |-> 0, placeZ |-> 0, blockType |-> AIR]
NoRay == [called |-> FALSE, origin |-> <<0, 0, 0>>, dir |-> <<0, 0, 0>>, res |-> NoHit]
NoOp == [op |-> "none", out |-> "none"]

InitGame ==
  /\ camRef = CamZero
  /\ holdTouchPos = ScreenCorner
  /\ isHolding = FALSE
  /\ lookTouch = NoTouch
  /\ miningRef = NoMining
  /\ miningProgress = 0
  /\ miningActive = FALSE
  /\ rafRef = FALSE
  /\ rafPending = 0
  /\ curStartTimer = FALSE
  /\ oldStartTimers = 0
  /\ retargetTimers = 0
  /\ droppedItems = << >>
  /\ nextId = 0
  /\ inventory = createFullInventory
  /\ inventoryRef = createFullInventory
  /\ selectedIndex = 0
  /\ craftingTableOpen = FALSE
  /\ screen = NoScreen
  /\ rayResult = NoRay
  /\ lastOp = NoOp

\* ---- IEEE-754 rounding of the eye offset ---------------------------------
\* The frame stores pos.y = feetY + EYE and the next frame reads
\* feetY = pos.y - EYE, both in doubles.  EYE is the double nearest 1.62,
\* significand 0x19EB851EB851EC; for a whole-block feet height h the sum
\* h + EYE is rounded to the quantum of its binade (ties to even) and the
\* difference is rounded to the quantum of h's binade.  Only the low bits of
\* the significand decide the two roundings.  The state keeps pos.y exact and
\* the read applies the sign of the round-trip error, as one model unit.
EYE_LOW_BITS == 492

RECURSIVE Pow2(_)
Pow2(n) == IF n = 0 THEN 1 ELSE 2 * Pow2(n - 1)
Log2(n) == CHOOSE e \in 0..8 : Pow2(e) <= n /\ n < Pow2(e + 1)

\* v rounded to a multiple of q, ties to the even multiple
roundEven(v, q) ==
  LET k == v \div q
      r == v % q
  IN  IF 2 * r < q THEN k * q
      ELSE IF 2 * r > q THEN (k + 1) * q
      ELSE IF k % 2 = 0 THEN k * q ELSE (k + 1) * q

\* sign of fl(fl(h + EYE) - EYE) - h for a whole number of blocks h in 1..255
eyeRoundTrip(h) ==
  LET q == Pow2(Log2(h + 1))
      err1 == roundEven(EYE_LOW_BITS, q) - EYE_LOW_BITS
      eh == Log2(h)
      qh == IF err1 < 0 /\ h = Pow2(eh) /\ eh > 0 THEN Pow2(eh - 1) ELSE Pow2(eh)
      err2 == roundEven(err1, qh)
  IN  IF err2 < 0 THEN 0 - 1 ELSE IF err2 > 0 THEN 1 ELSE 0

\* let feetY = pos.y - EYE
fromEye(y) ==
  LET f == y - EYE
  IN  IF f % U = 0 /\ f \div U >= 1 /\ f \div U <= 255
      THEN f + eyeRoundTrip(f \div U) ELSE f

\* ---- CameraController -----------------------------------------------------
MaxTicks == 2
Deltas == {16, 50, 120}
\* moveRef {dx, dz} and camRef yaw as <<sin, cos>>, per-mille
Moves == {<<0, 0>>, <<1000, 0>>, <<0 - 1000, 0>>, <<1000, 1000>>}
Yaws == {<<0, 1000>>, <<1000, 0>>}

\* Math.sqrt on per-mille squares, to the per-mille below
RECURSIVE sqrtBetween(_, _, _)
sqrtBetween(n, lo, hi) ==
  IF hi - lo <= 1 THEN lo
  ELSE LET mid == (lo + hi) \div 2
       IN  IF mid * mid <= n THEN sqrtBetween(n, mid, hi)
           ELSE sqrtBetween(n, lo, mid)
Isqrt(n) == sqrtBetween(n, 0, 2048)

\* a frame that takes the horizontal steps at the feet height it started with
useFrameStaleFeet(delta, mv, yaw, n) ==
  LET dt == Min(delta, 50)
      sinYaw == yaw[1]
      cosYaw == yaw[2]
      mx0 == ((0 - mv[2]) * sinYaw + mv[1] * cosYaw) \div 1000
      mz0 == ((0 - mv[2]) * cosYaw + mv[1] * (0 - sinYaw)) \div 1000
      sq == mx0 * mx0 + mz0 * mz0
      len == IF sq > 1000 * 1000 THEN Isqrt(sq) ELSE 1000
      moveX == IF sq > 1000 * 1000 THEN (mx0 * 1000) \div len ELSE mx0
      moveZ == IF sq > 1000 * 1000 THEN (mz0 * 1000) \div len ELSE mz0
      v1 == Max(velY - 28 * (U \div 1000) * dt, (0 - 20) * U)
      gravDy == (v1 * dt) \div 1000
      feet0 == fromEye(pos.y)
      resolved == moveY(pos.x, feet0, pos.z, gravDy, v1, world)
      feetY == resolved.feetY
      newX == pos.x + (moveX * dt * 45) \div 10
      xOk == ~aabbOverlaps(newX, feet0, pos.z, world)
      x1 == IF xOk THEN newX ELSE pos.x
      newZ == pos.z + (moveZ * dt * 45) \div 10
      zOk == ~aabbOverlaps(x1, feet0, newZ, world)
      z1 == IF zOk THEN newZ ELSE pos.z
  IN  /\ pos' = [x |-> x1, y |-> feetY + EYE, z |-> z1]
      /\ velY' = resolved.velY
      /\ onGround' = resolved.onGround
      /\ ticks' = n
      /\ lastMove' = [branch |-> resolved.branch, xOk |-> xOk, zOk |-> zOk]
      /\ UNCHANGED <<worldVars, meshVars, gameVars>>

\* a step that goes half of the way when its destination is taken
acceptStepPartial(old, new, free) == IF free THEN new ELSE (old + new) \div 2

\* if (!aabbOverlaps(...)) { pos.x = newX; }, and the same for z
acceptStep(old, new, free) == IF free THEN new ELSE old

\* useFrame callback of CameraController; n is the frame count kept for the run
useFrame(delta, mv, yaw, n) ==
  LET dt == Min(delta, 50)
      sinYaw == yaw[1]
      cosYaw == yaw[2]
      mx0 == ((0 - mv[2]) * sinYaw + mv[1] * cosYaw) \div 1000
      mz0 == ((0 - mv[2]) * cosYaw + mv[1] * (0 - sinYaw)) \div 1000
      sq == mx0 * mx0 + mz0 * mz0
      len == IF sq > 1000 * 1000 THEN Isqrt(sq) ELSE 1000
      moveX == IF sq > 1000 * 1000 THEN (mx0 * 1000) \div len ELSE mx0
      moveZ == IF sq > 1000 * 1000 THEN (mz0 * 1000) \div len ELSE mz0
      v1 == Max(velY - 28 * (U \div 1000) * dt, (0 - 20) * U)
      gravDy == (v1 * dt) \div 1000
      feet0 == fromEye(pos.y)
      resolved == moveY(pos.x, feet0, pos.z, gravDy, v1, world)
      feetY == resolved.feetY
      newX == pos.x + (moveX * dt * 45) \div 10
      xOk == ~aabbOverlaps(newX, feetY, pos.z, world)
      x1 == acceptStep(pos.x, newX, xOk)
      newZ == pos.z + (moveZ * dt * 45) \div 10
      zOk == ~aabbOverlaps(x1, feetY, newZ, world)
      z1 == acceptStep(pos.z, newZ, zOk)
  IN  /\ pos' = [x |-> x1, y |-> feetY + EYE, z |-> z1]
      /\ velY' = resolved.velY
      /\ onGround' = resolved.onGround
      /\ ticks' = n
      /\ lastMove' = [branch |-> resolved.branch, xOk |-> xOk, zOk |-> zOk]
      /\ UNCHANGED <<worldVars, meshVars, gameVars>>

CameraFrame(delta, mv, yaw) ==
  /\ ticks < MaxTicks
  /\ useFrame(delta, mv, yaw, ticks + 1)

\* a listener that jumps whatever the flag says
onJumpAnywhere ==
  /\ velY' = (95 * U) \div 10 /\ onGround' = FALSE
  /\ UNCHANGED <<pos, ticks, lastMove, worldVars, meshVars, gameVars>>

\* 'mc-jump' listener
onJump ==
  /\ IF onGround
     THEN velY' = (95 * U) \div 10 /\ onGround' = FALSE
     ELSE UNCHANGED <<velY, onGround>>
  /\ UNCHANGED <<pos, ticks, lastMove, worldVars, meshVars, gameVars>>

\* worlds of the physics runs: a floor whose top is at y0 + 1, a step, a wall,
\* a low ceiling over the column x = 0, z = 0, and a water cell
PhysWorld(y0) ==
  LET floor == {<<x, y0, z>> : x \in (0 - 1)..3, z \in (0 - 1)..1}
      solid == floor \cup {<<2, y0 + 1, 0>>, <<3, y0 + 1, 0>>, <<3, y0 + 2, 0>>,
                           <<0, y0 + 3, 0>>}
      water == {<<1, y0 + 1, 1>>}
  IN  [k \in solid \cup water |-> IF k \in water THEN WATER ELSE STONE]

FloorLevels == {0, 30}

\* start positions relative to the floor top: feet offset and velocity
PhysStarts ==
  { [x |-> U \div 2, z |-> U \div 2, up |-> 0, v |-> 0],
    [x |-> (3 * U) \div 2, z |-> U \div 2, up |-> 0, v |-> 0],
    [x |-> (3 * U) \div 2, z |-> U \div 2, up |-> (7 * U) \div 100, v |-> 0],
    [x |-> (3 * U) \div 2, z |-> U \div 2, up |-> U \div 5, v |-> (0 - 4) * U],
    [x |-> (5 * U) \div 2, z |-> U \div 2, up |-> (3 * U) \div 2, v |-> (0 - 19) * U] }

InitPhys ==
  /\ \E y0 \in FloorLevels : \E s \in PhysStarts :
       /\ world = PhysWorld(y0)
       /\ pos = [x |-> s.x, y |-> (y0 + 1) * U + s.up + EYE, z |-> s.z]
       /\ velY = s.v
       /\ onGround = FALSE
       /\ ~aabbOverlaps(s.x, (y0 + 1) * U + s.up, s.z, world)
  /\ worldVersion = 0
  /\ gen = NoGen
  /\ ticks = 0
  /\ lastMove = [branch |-> "none", xOk |-> FALSE, zOk |-> FALSE]
  /\ InitMesh
  /\ InitGame

NextPhys ==
  \/ \E delta \in Deltas : \E mv \in Moves : \E yaw \in Yaws :
       CameraFrame(delta, mv, yaw)
  \/ onJump

SpecPhys == InitPhys /\ [][NextPhys]_vars

\* C1: collision containment -- after every frame the resolved player box
\* (feet at pos.y - EYE as the frame left it) overlaps no solid voxel.
Containment ==
  ticks > 0 => ~aabbOverlaps(pos.x, pos.y - EYE, pos.z, world)

\* ---- VoxelChunk under world edits ----------------------------------------
\* a stone block with a leaves block beside it; the edits are the two writes
\* of the game: w.set on an absent key and w.delete of a present one
MeshWorld == (<<0, 0, 0>> :> STONE) @@ (<<1, 0, 0>> :> LEAVES)
EditCells == {<<1, 0, 0>>, <<0, 1, 0>>}

WorldEdit ==
  /\ \E key \in EditCells :
       IF has(world, key) THEN mutateWorld(mapDelete(world, key))
       ELSE \E bt \in {STONE, LEAVES} : mutateWorld(mapSet(world, key, bt))
  /\ UNCHANGED <<physVars, meshVars, gameVars>>

InitPlayer ==
  /\ pos = [x |-> U \div 2, y |-> U + EYE, z |-> U \div 2]
  /\ velY = 0
  /\ onGround = FALSE
  /\ ticks = 0
  /\ lastMove = [branch |-> "none", xOk |-> FALSE, zOk |-> FALSE]

InitMeshSpec ==
  /\ world = MeshWorld
  /\ worldVersion = 0
  /\ gen = NoGen
  /\ InitPlayer
  /\ InitMesh
  /\ InitGame

NextMesh ==
  \/ WorldEdit
  \/ VoxelChunkEffect
  \/ \E t \in buildTimers : BuildTimer(t)

SpecMesh == InitMeshSpec /\ [][NextMesh]_vars

RAY_START == 30
RAY_STEP == 4
MAX_DIST == 600

\* look direction of raycastBlock, per-mille:
\* (sin yaw cos pitch, sin pitch, cos yaw cos pitch)
lookDir(cam) ==
  LET yaw == YawTable[cam.yaw]
      pitch == PitchTable[cam.pitch]
  IN  <<(yaw[1] * pitch[2]) \div 1000, pitch[1], (yaw[2] * pitch[2]) \div 1000>>

\* ray of raycaster.setFromCamera(ndc, camera) through a screen point: the
\* centre looks along the camera, the top corner one pitch step up, a point
\* below the centre one pitch step down
screenCam(cam, pt) ==
  [cam EXCEPT !.pitch =
     IF pt = ScreenCentre THEN @
     ELSE IF pt = ScreenCorner THEN Min(@ + 1, Len(PitchTable))
     ELSE Max(@ - 1, 1)]

\* Math.floor of origin.clone().addScaledVector(dir, t), per axis
sampleCell(origin, dir, t) ==
  <<Floor(origin[1] + dir[1] * t * 10), Floor(origin[2] + dir[2] * t * 10),
    Floor(origin[3] + dir[3] * t * 10)>>

\* number of iterations of the loop t = 0.3; t < 6; t += 0.04
raySteps == (MAX_DIST - RAY_START + RAY_STEP - 1) \div RAY_STEP

\* the cells of the iterations, in order: path[k] is the cell of iteration k
samplePath(origin, dir) ==
  [k \in 1..raySteps |-> sampleCell(origin, dir, RAY_START + (k - 1) * RAY_STEP)]

\* eye positions and look directions whose sample paths are tabulated once
EyeStart == <<U \div 2, U + EYE, U \div 2>>
RayOrigins ==
  { EyeStart, <<(17 * U) \div 10, U + EYE, U \div 2>>,
    <<U \div 2, U + EYE, (7 * U) \div 10>>, <<(3 * U) \div 10, U + EYE, U \div 2>>,
    <<(6 * U) \div 10, (14 * U) \div 10 + EYE, (4 * U) \div 10>>,
    <<(48 * U) \div 100, U + EYE, U \div 2>> }
RayDirs == {lookDir([yaw |-> i, pitch |-> j]) : i \in 1..Len(YawTable),
                                                j \in 1..Len(PitchTable)}
RayKeys == RayOrigins \X RayDirs
RayPaths == [od \in RayKeys |-> samplePath(od[1], od[2]) @@ <<>>] @@ <<>>

\* the iterations whose cell differs from the cell of the iteration before,
\* in increasing order; the loop can only return at one of them, since within
\* a cell every iteration makes the same test
cellEntries(od) ==
  {k : k \in {j \in 1..raySteps : j = 1 \/ RayPaths[od][j] # RayPaths[od][j - 1]}}
RayEntrySets == [od \in RayKeys |-> cellEntries(od)] @@ <<>>
RayEntries ==
  [od \in RayKeys |->
     [i \in 1..Cardinality(RayEntrySets[od]) |->
        CHOOSE k \in RayEntrySets[od] :
          Cardinality({j \in RayEntrySets[od] : j <= k}) = i] @@ <<>>] @@ <<>>
RayEntryCount == [od \in RayKeys |-> Cardinality(RayEntrySets[od])] @@ <<>>

\* the test of one iteration: bt !== undefined && bt !== AIR && bt !== WATER
\* a test that stops at water
sampleHitsWater(cell, w) ==
  has(w, posKey(cell[1], cell[2], cell[3]))
  /\ w[posKey(cell[1], cell[2], cell[3])] # AIR

sampleHits(cell, w) ==
  has(w, posKey(cell[1], cell[2], cell[3]))
  /\ w[posKey(cell[1], cell[2], cell[3])] \notin {AIR, WATER}

\* the iteration at which the loop returns, NullType when it runs to its end:
\* over a tabulated path, the first cell entry from the i-th on that hits
RECURSIVE rayScan(_, _, _)
rayScan(od, w, i) ==
  IF i > RayEntryCount[od] THEN NullType
  ELSE IF sampleHits(RayPaths[od][RayEntries[od][i]], w) THEN RayEntries[od][i]
  ELSE rayScan(od, w, i + 1)

rayLoop(origin, dir, w) ==
  IF <<origin, dir>> \in RayKeys THEN rayScan(<<origin, dir>>, w, 1)
  ELSE LET hits == {k \in 1..raySteps :
                      sampleHits(sampleCell(origin, dir,
                                            RAY_START + (k - 1) * RAY_STEP), w)}
       IN  IF hits = {} THEN NullType
           ELSE CHOOSE k \in hits : \A j \in hits : k <= j

\* the loop shared by screenRaycast and raycastBlock: the hit of the returning
\* iteration with the cell of the iteration before it (prevBx, prevBy, prevBz)
rayHit(origin, dir, k, w) ==
  LET b == sampleCell(origin, dir, RAY_START + (k - 1) * RAY_STEP)
      prev == IF k = 1 THEN <<Floor(origin[1]), Floor(origin[2]), Floor(origin[3])>>
              ELSE sampleCell(origin, dir, RAY_START + (k - 2) * RAY_STEP)
  IN  IF k = NullType THEN NoHit
      ELSE [hit |-> TRUE, x |-> b[1], y |-> b[2], z |-> b[3],
            placeX |-> prev[1], placeY |-> prev[2], placeZ |-> prev[3],
            blockType |-> w[posKey(b[1], b[2], b[3])]]

rayMarch(origin, dir, w) == rayHit(origin, dir, rayLoop(origin, dir, w), w)

raycastBlock(origin, cam, w) ==
  rayMarch(<<origin.x, origin.y, origin.z>>, lookDir(cam), w)

\* the ray origin is the camera position
screenRaycast(pt, origin, cam, w) ==
  rayMarch(<<origin.x, origin.y, origin.z>>, lookDir(screenCam(cam, pt)), w)

\* the raycast of startMining and placeBlock: through the screen point when
\* one is given, along the look direction otherwise
aimRaycastIn(w, pt) ==
  IF pt # NullType THEN screenRaycast(pt, pos, camRef, w)
  ELSE raycastBlock(pos, camRef, w)

aimRaycast(pt) == aimRaycastIn(world, pt)

\* ---- Block and item properties -------------------------------------------
CRAFTING_TABLE == 10
STICK == 100
WOODEN_AXE == 101
isItemNever(bt) == FALSE
isItem(bt) == bt \in {STICK, WOODEN_AXE}

\* times of the mining loop are in thirds of a millisecond, so that a frame
\* of 1/60 s is 50
MS == 3

\* break time of a block type
getBlockBreakTime(bt) == IF bt = STONE THEN 1500 * MS ELSE 750 * MS

\* ---- Inventory ------------------------------------------------------------
\* next.find(pred): the lowest index satisfying pred, NullType when none
findSlot(inv, ok(_)) ==
  LET hits == {i \in DOMAIN inv : ok(inv[i])}
  IN  IF hits = {} THEN NullType ELSE CHOOSE i \in hits : \A j \in hits : i <= j

addToInventory(inv, bt) ==
  LET IsStack(s) == s.blockType = bt /\ s.count > 0
      IsEmpty(s) == s.blockType = NullType \/ s.count = 0
      existing == findSlot(inv, IsStack)
      empty == findSlot(inv, IsEmpty)
  IN  IF existing # NullType
      THEN [inv EXCEPT ![existing].count = @ + 1]
      ELSE IF empty # NullType
           THEN [inv EXCEPT ![empty] = [blockType |-> bt, count |-> 1]]
           ELSE inv

removeFromInventory(inv, index) ==
  IF inv[index].count > 0
  THEN IF inv[index].count = 1
       THEN [inv EXCEPT ![index] = [blockType |-> NullType, count |-> 0]]
       ELSE [inv EXCEPT ![index].count = @ - 1]
  ELSE inv

\* ---- Dropped items --------------------------------------------------------
createDroppedItem(x, y, z, bt) ==
  [id |-> nextId, x |-> x * U + U \div 2, y |-> y * U + (8 * U) \div 10,
   z |-> z * U + U \div 2, velY |-> 3 * U, blockType |-> bt, age |-> 0,
   count |-> 1]

RECURSIVE addTimes(_, _, _)
addTimes(inv, bt, n) ==
  IF n = 0 THEN inv ELSE addTimes(addToInventory(inv, bt), bt, n - 1)

\* ---- Player AABB helper ---------------------------------------------------
blockOverlapsPlayer(bx, by, bz, playerPos) ==
  LET feetY == fromEye(playerPos.y)
      headY == playerPos.y + HEAD
  IN  /\ playerPos.x + HALF > bx * U /\ playerPos.x - HALF < (bx + 1) * U
      /\ headY > by * U /\ feetY < (by + 1) * U
      /\ playerPos.z + HALF > bz * U /\ playerPos.z - HALF < (bz + 1) * U

\* ---- Mining state machine -------------------------------------------------
\* frame gaps of the mining loop: half a second and a second
MineDts == {500 * MS, 1000 * MS}

\* a stop that cancels the frame but keeps the session
stopMiningKeepsSession ==
  /\ miningActive' = FALSE
  /\ miningProgress' = 0
  /\ rafRef' = FALSE
  /\ rafPending' = IF rafRef THEN rafPending - 1 ELSE rafPending
  /\ UNCHANGED miningRef

stopMining ==
  /\ miningRef' = NoMining
  /\ miningActive' = FALSE
  /\ miningProgress' = 0
  /\ rafRef' = FALSE
  /\ rafPending' = IF rafRef THEN rafPending - 1 ELSE rafPending

\* a startMining that keeps the session when its raycast hits nothing
startMiningIgnoresMiss(pt) ==
  LET result == aimRaycast(pt)
      key == posKey(result.x, result.y, result.z)
  IN  IF ~result.hit \/ (miningRef.active /\ miningRef.targetKey = key)
      THEN UNCHANGED miningVars
      ELSE /\ miningRef' = [active |-> TRUE, targetKey |-> key,
                            blockType |-> result.blockType, elapsed |-> 0,
                            screen |-> pt]
           /\ miningActive' = TRUE
           /\ miningProgress' = 0
           /\ rafRef' = TRUE
           /\ rafPending' = IF rafRef THEN rafPending ELSE rafPending + 1

\* a startMining that requests a frame for every new session
startMiningAlwaysRequests(pt) ==
  LET result == aimRaycast(pt)
      key == posKey(result.x, result.y, result.z)
  IN  IF ~result.hit THEN stopMining
      ELSE IF miningRef.active /\ miningRef.targetKey = key
      THEN UNCHANGED miningVars
      ELSE /\ miningRef' = [active |-> TRUE, targetKey |-> key,
                            blockType |-> result.blockType, elapsed |-> 0,
                            screen |-> pt]
           /\ miningActive' = TRUE
           /\ miningProgress' = 0
           /\ rafRef' = TRUE
           /\ rafPending' = rafPending + 1

\* startMining(screenX, screenY); pt is NullType when called without arguments
startMining(pt) ==
  LET result == aimRaycast(pt)
      key == posKey(result.x, result.y, result.z)
  IN  IF ~result.hit THEN stopMining
      ELSE IF miningRef.active /\ miningRef.targetKey = key
      THEN UNCHANGED miningVars
      ELSE /\ miningRef' = [active |-> TRUE, targetKey |-> key,
                            blockType |-> result.blockType, elapsed |-> 0,
                            screen |-> pt]
           /\ miningActive' = TRUE
           /\ miningProgress' = 0
           /\ rafRef' = TRUE
           /\ rafPending' = IF rafRef THEN rafPending ELSE rafPending + 1

\* a progress that counts the remaining share of the break time
progressOfRemaining(elapsed, bt) ==
  IF elapsed >= getBlockBreakTime(bt) THEN 1000
  ELSE 1000 - (elapsed * 1000) \div getBlockBreakTime(bt)

\* progress = Math.min(mining.elapsed / breakTime, 1), per-mille
progressOf(elapsed, bt) == Min((elapsed * 1000) \div getBlockBreakTime(bt), 1000)

\* an elapsed time that grows by 1/60 s per callback, whatever the clock says
elapsedAfterFixedTick(elapsed, dt) == elapsed + 50

\* dt = (now - mining.lastTime) / 1000; mining.lastTime = now;
\* mining.elapsed += dt
elapsedAfter(elapsed, dt) == elapsed + dt

\* one requestAnimationFrame callback of miningLoop, dt after mining.lastTime
\* (the start of the session or the callback before)
miningLoop(dt) ==
  /\ rafPending > 0
  /\ IF ~miningRef.active
     THEN /\ rafRef' = FALSE
          /\ rafPending' = rafPending - 1
          /\ miningActive' = FALSE
          /\ miningProgress' = 0
          /\ lastOp' = NoOp
          /\ UNCHANGED <<miningRef, worldVars, droppedItems, nextId, retargetTimers>>
     ELSE LET elapsed == elapsedAfter(miningRef.elapsed, dt)
              progress == progressOf(elapsed, miningRef.blockType)
              key == miningRef.targetKey
          IN  IF progress >= 1000
              THEN /\ IF has(world, key) /\ world[key] # AIR
                      THEN /\ droppedItems' = Append(droppedItems,
                                createDroppedItem(key[1], key[2], key[3], world[key]))
                           /\ nextId' = nextId + 1
                           /\ mutateWorld(mapDelete(world, key))
                      ELSE UNCHANGED <<worldVars, droppedItems, nextId>>
                   /\ miningRef' = NoMining
                   /\ miningProgress' = 0
                   /\ IF isHolding
                      THEN retargetTimers' = retargetTimers + 1
                             /\ UNCHANGED miningActive
                      ELSE miningActive' = FALSE /\ UNCHANGED retargetTimers
                   /\ rafRef' = FALSE
                   /\ rafPending' = rafPending - 1
                   /\ lastOp' = [op |-> "miningLoop", out |-> "broken"]
              ELSE /\ miningRef' = [miningRef EXCEPT !.elapsed = elapsed]
                   /\ miningProgress' = progress
                   /\ rafRef' = TRUE
                   /\ UNCHANGED <<rafPending, worldVars, droppedItems, nextId,
                                  retargetTimers, miningActive>>
                   /\ lastOp' = NoOp
  /\ UNCHANGED <<physVars, meshVars, inputVars, curStartTimer, oldStartTimers,
                 screen, inventory, inventoryRef, selectedIndex, craftingTableOpen,
                 rayResult>>

\* a re-target that does not ask whether the input is still held
RetargetTimerIgnoresRelease ==
  /\ retargetTimers > 0
  /\ retargetTimers' = retargetTimers - 1
  /\ startMining(holdTouchPos)
  /\ lastOp' = [op |-> "retarget",
                out |-> IF ~isHolding THEN "released"
                        ELSE IF aimRaycast(holdTouchPos).hit THEN "hit" ELSE "nohit"]
  /\ UNCHANGED <<worldVars, physVars, meshVars, inputVars, curStartTimer,
                 oldStartTimers, itemVars, rayResult>>

\* the 50 ms timer armed by miningLoop after a block broke
RetargetTimer ==
  /\ retargetTimers > 0
  /\ retargetTimers' = retargetTimers - 1
  /\ IF isHolding THEN startMining(holdTouchPos) ELSE UNCHANGED miningVars
  /\ lastOp' = [op |-> "retarget",
                out |-> IF ~isHolding THEN "released"
                        ELSE IF aimRaycast(holdTouchPos).hit THEN "hit" ELSE "nohit"]
  /\ UNCHANGED <<worldVars, physVars, meshVars, inputVars, curStartTimer,
                 oldStartTimers, itemVars, rayResult>>

\* ---- placeBlock -----------------------------------------------------------
\* a placement that does not ask whether the cell has an entry
placeOutcomeAnyCell(pt) ==
  LET slot == inventoryRef[selectedIndex]
      result == aimRaycast(pt)
  IN  IF slot.blockType = NullType \/ slot.count <= 0 THEN "empty"
      ELSE IF isItem(slot.blockType) THEN "item"
      ELSE IF ~result.hit THEN "nohit"
      ELSE IF result.blockType = CRAFTING_TABLE THEN "crafting"
      ELSE IF blockOverlapsPlayer(result.placeX, result.placeY, result.placeZ, pos)
      THEN "overlap"
      ELSE "placed"

\* the branch placeBlock takes when worldRef.current is w
placeOutcomeIn(w, pt) ==
  LET slot == inventoryRef[selectedIndex]
      result == aimRaycastIn(w, pt)
      key == posKey(result.placeX, result.placeY, result.placeZ)
  IN  IF slot.blockType = NullType \/ slot.count <= 0 THEN "empty"
      ELSE IF isItem(slot.blockType) THEN "item"
      ELSE IF ~result.hit THEN "nohit"
      ELSE IF result.blockType = CRAFTING_TABLE THEN "crafting"
      ELSE IF blockOverlapsPlayer(result.placeX, result.placeY, result.placeZ, pos)
      THEN "overlap"
      ELSE IF has(w, key) THEN "occupied"
      ELSE "placed"

placeOutcome(pt) == placeOutcomeIn(world, pt)

placeBlock(pt) ==
  LET out == placeOutcome(pt)
      result == aimRaycast(pt)
      key == posKey(result.placeX, result.placeY, result.placeZ)
  IN  /\ lastOp' = [op |-> "placeBlock", out |-> out]
      /\ craftingTableOpen' = IF out = "crafting" THEN TRUE ELSE craftingTableOpen
      /\ IF out = "placed"
         THEN /\ mutateWorld(mapSet(world, key, inventoryRef[selectedIndex].blockType))
              /\ inventory' = removeFromInventory(inventory, selectedIndex)
         ELSE UNCHANGED <<worldVars, inventory>>

\* ---- Input handlers -------------------------------------------------------
\* timers of ended look touches that may still be pending when a touch starts
MaxOldTimers == 1
TouchPts == {ScreenCentre}
\* where the finger is after it moved more than 10 px from a start in TouchPts
FarPts == {ScreenBelow}
SelectableSlots == {0, 1}

\* camera orientations the look inputs move between
GameCams ==
  { [yaw |-> 1, pitch |-> 3], [yaw |-> 2, pitch |-> 3], [yaw |-> 3, pitch |-> 3] }

\* document mousemove
mouseLook(cam) ==
  /\ cam # camRef
  /\ camRef' = cam
  /\ lastOp' = NoOp
  /\ UNCHANGED <<holdTouchPos, isHolding, lookTouch, worldVars,
                 physVars, meshVars, miningVars, timerVars, itemVars, rayResult>>

\* document mousedown while the pointer is locked, button 0 (mine) or 2 (place)
onMouseDown(button) ==
  /\ IF button = 0
     THEN /\ isHolding' = TRUE
          /\ startMining(NullType)
          /\ lastOp' = NoOp
          /\ UNCHANGED <<worldVars, itemVars>>
     ELSE /\ placeBlock(NullType)
          /\ UNCHANGED <<isHolding, miningVars, screen, droppedItems, nextId, inventoryRef,
                         selectedIndex>>
  /\ UNCHANGED <<camRef, holdTouchPos, lookTouch, physVars, meshVars,
                 timerVars, rayResult>>

\* document mouseup, button 0
onMouseUp ==
  /\ isHolding' = FALSE
  /\ stopMining
  /\ lastOp' = [op |-> "release", out |-> "mouse"]
  /\ UNCHANGED <<camRef, holdTouchPos, lookTouch, worldVars,
                 physVars, meshVars, timerVars, itemVars, rayResult>>

\* touchstart right of 35% of the width while no look touch is tracked
handleLookTouchStart(pt) ==
  /\ ~lookTouch.active
  /\ oldStartTimers <= MaxOldTimers
  /\ lookTouch' = [active |-> TRUE, start |-> pt, startCam |-> camRef,
                   far |-> FALSE, long |-> FALSE]
  /\ holdTouchPos' = pt
  /\ isHolding' = TRUE
  /\ curStartTimer' = TRUE
  /\ lastOp' = NoOp
  /\ UNCHANGED <<camRef, worldVars, physVars, meshVars, miningVars,
                 oldStartTimers, retargetTimers, itemVars, rayResult>>

\* touchmove of the look touch: within 10 px of its start, or farther
handleLookTouchMove(far, pt, cam) ==
  /\ lookTouch.active
  /\ IF far
     THEN /\ holdTouchPos' = pt
          /\ camRef' = cam
          /\ stopMining
     ELSE /\ holdTouchPos' = lookTouch.start
          /\ camRef' = lookTouch.startCam
          /\ UNCHANGED miningVars
  /\ lookTouch' = [lookTouch EXCEPT !.far = far]
  /\ lastOp' = NoOp
  /\ UNCHANGED <<isHolding, worldVars, physVars, meshVars,
                 timerVars, itemVars, rayResult>>

\* touchend and touchcancel of the look touch
handleLookTouchEnd ==
  /\ lookTouch.active
  /\ isHolding' = FALSE
  /\ stopMining
  /\ IF ~lookTouch.far /\ ~lookTouch.long /\ ~craftingTableOpen
     THEN placeBlock(lookTouch.start)
     ELSE /\ lastOp' = [op |-> "release", out |-> "touch"]
          /\ UNCHANGED <<worldVars, inventory, craftingTableOpen>>
  /\ lookTouch' = NoTouch
  /\ curStartTimer' = FALSE
  /\ oldStartTimers' = IF curStartTimer THEN oldStartTimers + 1 ELSE oldStartTimers
  /\ UNCHANGED <<camRef, holdTouchPos, physVars, meshVars,
                 screen, retargetTimers, droppedItems, nextId, inventoryRef, selectedIndex,
                 rayResult>>

\* 200 ms pass since the start of the look touch
Elapse200 ==
  /\ lookTouch.active /\ ~lookTouch.long
  /\ lookTouch' = [lookTouch EXCEPT !.long = TRUE]
  /\ lastOp' = NoOp
  /\ UNCHANGED <<camRef, holdTouchPos, isHolding, worldVars, physVars,
                 meshVars, miningVars, timerVars, itemVars, rayResult>>

\* body of the 200 ms timer armed by handleLookTouchStart
startTimerBody ==
  /\ IF isHolding /\ lookTouch.active THEN startMining(holdTouchPos)
     ELSE UNCHANGED miningVars
  /\ lastOp' = NoOp
  /\ UNCHANGED <<worldVars, physVars, meshVars, inputVars, retargetTimers,
                 itemVars, rayResult>>

\* the timer of the current look touch fires, 200 ms after its start
StartTimer ==
  /\ curStartTimer /\ lookTouch.long
  /\ curStartTimer' = FALSE
  /\ UNCHANGED oldStartTimers
  /\ startTimerBody

\* the timer of a look touch that has ended fires
OldStartTimer ==
  /\ oldStartTimers > 0
  /\ oldStartTimers' = oldStartTimers - 1
  /\ UNCHANGED curStartTimer
  /\ startTimerBody

\* keydown of a digit key, and onSelect of the hot bar
setSelectedIndex(idx) ==
  /\ idx # selectedIndex
  /\ selectedIndex' = idx
  /\ lastOp' = NoOp
  /\ UNCHANGED <<screen, droppedItems, nextId, inventory, inventoryRef, craftingTableOpen,
                 worldVars, physVars, meshVars, inputVars, miningVars, timerVars,
                 rayResult>>

\* onClose of the crafting table screen
onCloseCraftingTable ==
  /\ craftingTableOpen
  /\ craftingTableOpen' = FALSE
  /\ lastOp' = NoOp
  /\ UNCHANGED <<screen, droppedItems, nextId, inventory, inventoryRef, selectedIndex,
                 worldVars, physVars, meshVars, inputVars, miningVars, timerVars,
                 rayResult>>

\* a render of MinecraftGame: inventoryRef.current = inventory, and the effect
\* that restarts the mining loop when a session has no frame requested
Render ==
  /\ inventoryRef # inventory \/ (miningRef.active /\ ~rafRef)
  /\ inventoryRef' = inventory
  /\ IF miningRef.active /\ ~rafRef
     THEN rafRef' = TRUE /\ rafPending' = rafPending + 1
     ELSE UNCHANGED <<rafRef, rafPending>>
  /\ lastOp' = NoOp
  /\ UNCHANGED <<miningRef, miningProgress, miningActive, droppedItems, nextId,
                 screen, inventory, selectedIndex, craftingTableOpen, worldVars,
                 physVars, meshVars, inputVars, timerVars, rayResult>>

\* pickup branch of the DroppedItems frame for the item at index i: onPickup
\* once per counted block, then the item is spliced out
PickupItem(i) ==
  /\ i \in DOMAIN droppedItems
  /\ inventory' = addTimes(inventory, droppedItems[i].blockType, droppedItems[i].count)
  /\ droppedItems' = [j \in 1..(Len(droppedItems) - 1) |->
                        IF j < i THEN droppedItems[j] ELSE droppedItems[j + 1]]
  /\ lastOp' = NoOp
  /\ UNCHANGED <<screen, nextId, inventoryRef, selectedIndex, craftingTableOpen, worldVars,
                 physVars, meshVars, inputVars, miningVars, timerVars, rayResult>>

\* ---- The game -------------------------------------------------------------
\* a grass floor under the player, a stone block with dirt behind it ahead, a
\* stone block behind water to the right, a crafting table to the left
GameWorld ==
  LET floor == {<<x, 0, z>> : x \in (0 - 1)..3, z \in (0 - 1)..4}
  IN  [k \in floor |-> GRASS]
      @@ (<<0, 2, 3>> :> STONE) @@ (<<0, 2, 4>> :> DIRT)
      @@ (<<2, 2, 0>> :> WATER) @@ (<<3, 2, 0>> :> STONE)
      @@ (<<0 - 2, 2, 0>> :> CRAFTING_TABLE)

Init ==
  /\ world = GameWorld
  /\ worldVersion = 0
  /\ gen = NoGen
  /\ InitPlayer
  /\ InitMesh
  /\ InitGame

\* the game played with mouse and keyboard
Next ==
  \/ \E cam \in GameCams : mouseLook(cam)
  \/ \E button \in {0, 2} : onMouseDown(button)
  \/ onMouseUp
  \/ RetargetTimer
  \/ \E dt \in MineDts : miningLoop(dt)
  \/ \E idx \in SelectableSlots : setSelectedIndex(idx)
  \/ onCloseCraftingTable
  \/ Render
  \/ \E i \in DOMAIN droppedItems : PickupItem(i)

Spec == Init /\ [][Next]_vars

\* the look touch, its timers and the mining loop on the touch screen; no
\* item is picked up, so the inventory stays empty and every tap places nothing
NextTouch ==
  \/ \E pt \in TouchPts : handleLookTouchStart(pt)
  \/ handleLookTouchMove(FALSE, lookTouch.start, lookTouch.startCam)
  \/ \E pt \in FarPts : \E cam \in GameCams : handleLookTouchMove(TRUE, pt, cam)
  \/ handleLookTouchEnd
  \/ Elapse200
  \/ StartTimer
  \/ OldStartTimer
  \/ RetargetTimer
  \/ \E dt \in MineDts : miningLoop(dt)

SpecTouch == Init /\ [][NextTouch]_vars

\* ---- Properties of the world store, mining and placement ------------------
\* the step in which miningLoop saw progress reach 1
Broken == [op |-> "miningLoop", out |-> "broken"]

\* C3: every step that changes the world map raises the world version by
\* exactly one, and no step lowers the version; so the map never changes while
\* the version stays the same
WorldChangeBumpsVersion ==
  [][/\ world' # world => worldVersion' = worldVersion + 1
     /\ worldVersion' >= worldVersion]_vars

\* C3 witness: a block was mined and a block was placed, the version is 2
MinedThenPlaced ==
  /\ worldVersion = 2
  /\ lastOp = [op |-> "placeBlock", out |-> "placed"]
  /\ \E k \in DOMAIN GameWorld : ~has(world, k)
  /\ \E k \in DOMAIN world : ~has(GameWorld, k)

\* C4: in the step where progress reaches 1 the target block leaves the world
\* with one version bump, every other cell keeps its entry, exactly one dropped
\* item of the removed block's type appears inside the target cell, and the
\* mining session becomes absent
MiningCompletion ==
  [][lastOp' = Broken =>
       LET key == miningRef.targetKey
           item == droppedItems'[Len(droppedItems')]
       IN  /\ miningRef.active
           /\ has(world, key) /\ ~has(world', key)
           /\ DOMAIN world' = DOMAIN world \ {key}
           /\ \A k \in DOMAIN world' : world'[k] = world[k]
           /\ worldVersion' = worldVersion + 1
           /\ Len(droppedItems') = Len(droppedItems) + 1
           /\ \A i \in 1..Len(droppedItems) : droppedItems'[i] = droppedItems[i]
           /\ item.blockType = world[key] /\ item.count = 1
           /\ <<Floor(item.x), Floor(item.y), Floor(item.z)>> = key
           /\ miningRef' = NoMining]_vars

\* C4 witness: the stone block ahead has just been broken and dropped
StoneBroken ==
  /\ lastOp = Broken
  /\ ~has(world, <<0, 2, 3>>)
  /\ droppedItems # << >>
  /\ droppedItems[Len(droppedItems)].blockType = STONE

\* C5: the exposed progress stays within [0, 1]; from step to step of one
\* session on one target it does not decrease; and a session that starts, or
\* that moves to another target, starts with progress 0 and no elapsed time
ProgressMonotone ==
  /\ [](miningProgress >= 0 /\ miningProgress <= 1000)
  /\ [][(miningRef.active /\ miningRef'.active
          /\ miningRef'.targetKey = miningRef.targetKey)
          => miningProgress' >= miningProgress]_vars
  /\ [][(miningRef'.active
          /\ (~miningRef.active \/ miningRef'.targetKey # miningRef.targetKey))
          => (miningProgress' = 0 /\ miningRef'.elapsed = 0)]_vars

\* C5 witness: a session on the stone block is two frames in, progress at 2/3
StoneTwoThirds ==
  /\ miningRef.active
  /\ miningRef.targetKey = <<0, 2, 3>>
  /\ miningRef.elapsed = 1000 * MS
  /\ miningProgress = 666

\* C6: while the hold input is released the mining session is absent, the
\* progress is 0 and the active flag is false, and no step taken while it
\* stays released removes a block, whatever frame callbacks and timers fire
ReleaseDestroysSession ==
  /\ [](~isHolding => (miningRef = NoMining /\ miningProgress = 0 /\ ~miningActive))
  /\ [][~isHolding' => DOMAIN world \subseteq DOMAIN world']_vars

\* C6 witness: the look touch ended after a block broke, with the 50 ms
\* re-target timer and a 200 ms start timer of an earlier touch still pending
ReleasedWithTimersPending ==
  /\ lastOp = [op |-> "release", out |-> "touch"]
  /\ ~isHolding
  /\ retargetTimers > 0
  /\ oldStartTimers > 0
  /\ worldVersion > 0

\* C7: a block that miningLoop breaks is the block the session's raycast
\* hits at that moment: time accumulated on a target is not used once the
\* raycast hit is another block
BrokenBlockIsAimed ==
  [][lastOp' = Broken =>
       LET result == aimRaycast(miningRef.screen)
       IN  result.hit /\ <<result.x, result.y, result.z>> = miningRef.targetKey]_vars

\* C8: when the raycast of placeBlock() yields a placement cell that has an
\* entry in the world map, the call leaves the map, the version and the
\* inventory as they were
OccupiedPlacementRejected ==
  [][(lastOp'.op = "placeBlock"
       /\ LET result == raycastBlock(pos, camRef, world)
          IN  result.hit
              /\ has(world, posKey(result.placeX, result.placeY, result.placeZ)))
       => UNCHANGED <<world, worldVersion, inventory>>]_vars

\* C8 witness: holding a block, the player aimed at the stone behind the
\* water; the placement cell is the water cell and the call was rejected there
PlacementOntoWater ==
  /\ lastOp = [op |-> "placeBlock", out |-> "occupied"]
  /\ raycastBlock(pos, camRef, world).hit
  /\ raycastBlock(pos, camRef, world).placeX = 2
  /\ world[<<2, 2, 0>>] = WATER
  /\ inventory[selectedIndex].count > 0

\* ---- Placement next to the player ----------------------------------------
\* a grass floor with a stone block two cells ahead and one three cells to
\* the right, at eye level
PlaceWorld ==
  LET floor == {<<x, 0, z>> : x \in (0 - 1)..4, z \in (0 - 1)..4}
  IN  [k \in floor |-> GRASS] @@ (<<0, 2, 2>> :> STONE) @@ (<<3, 2, 0>> :> STONE)

\* standing places on the floor: the middle of a cell, and places where the
\* +x or +z face of the box lies on a cell boundary
PlaceStarts ==
  { [x |-> o[1], y |-> o[2], z |-> o[3]] : o \in {p \in RayOrigins : p[2] = U + EYE} }

PlaceCams ==
  { [yaw |-> 1, pitch |-> 3], [yaw |-> 2, pitch |-> 3], [yaw |-> 3, pitch |-> 3],
    [yaw |-> 1, pitch |-> 2], [yaw |-> 2, pitch |-> 2] }

\* three dirt blocks in the first hot bar slot
PlaceInventory ==
  [createFullInventory EXCEPT ![0] = [blockType |-> DIRT, count |-> 3]]

\* the player on the floor of world w with inv in the inventory
InitPlaceWith(w, inv) ==
  /\ world = w
  /\ worldVersion = 0
  /\ gen = NoGen
  /\ pos \in PlaceStarts
  /\ velY = 0
  /\ onGround = TRUE
  /\ ticks = 0
  /\ lastMove = [branch |-> "none", xOk |-> FALSE, zOk |-> FALSE]
  /\ InitMesh
  /\ camRef \in PlaceCams
  /\ holdTouchPos = ScreenCorner
  /\ isHolding = FALSE
  /\ lookTouch = NoTouch
  /\ miningRef = NoMining
  /\ miningProgress = 0
  /\ miningActive = FALSE
  /\ rafRef = FALSE
  /\ rafPending = 0
  /\ curStartTimer = FALSE
  /\ oldStartTimers = 0
  /\ retargetTimers = 0
  /\ droppedItems = << >>
  /\ nextId = 0
  /\ inventory = inv
  /\ inventoryRef = inv
  /\ selectedIndex = 0
  /\ craftingTableOpen = FALSE
  /\ screen = NoScreen
  /\ rayResult = NoRay
  /\ lastOp = NoOp

InitPlaceIn(w) == InitPlaceWith(w, PlaceInventory)

InitPlace == InitPlaceIn(PlaceWorld)

NextPlace ==
  \/ \E cam \in PlaceCams : mouseLook(cam)
  \/ onMouseDown(2)
  \/ \E idx \in SelectableSlots : setSelectedIndex(idx)
  \/ Render

SpecPlace == InitPlace /\ [][NextPlace]_vars

\* C9: after placeBlock has written a block, the overlap test of the collision
\* resolver at the player's position is false
PlacementKeepsPlayerFree ==
  lastOp = [op |-> "placeBlock", out |-> "placed"]
    => ~aabbOverlaps(pos.x, fromEye(pos.y), pos.z, world)

\* ---- The raycaster on its own -------------------------------------------
\* the placement world with a stone block diagonally ahead at eye level
CornerWorld == PlaceWorld @@ (<<1, 2, 1>> :> STONE)

\* worlds a ray is cast into: the game world, the placement world, the
\* game world with the stone behind the water removed, and the corner world
RayWorlds ==
  { GameWorld, PlaceWorld, CornerWorld,
    [k \in DOMAIN GameWorld \ {<<3, 2, 0>>} |-> GameWorld[k]] }

AllCams == {[yaw |-> i, pitch |-> j] : i \in 1..Len(YawTable), j \in 1..Len(PitchTable)}

\* a call of raycastBlock(origin, yaw, pitch, world)
CastLook ==
  /\ rayResult' = [called |-> TRUE, origin |-> <<pos.x, pos.y, pos.z>>,
                   dir |-> lookDir(camRef),
                   res |-> raycastBlock(pos, camRef, world)]
  /\ UNCHANGED <<worldVars, physVars, meshVars, inputVars, miningVars, timerVars,
                 itemVars, lastOp>>

\* a call of screenRaycast(screenX, screenY, camera, world)
CastScreen(pt) ==
  /\ rayResult' = [called |-> TRUE, origin |-> <<pos.x, pos.y, pos.z>>,
                   dir |-> lookDir(screenCam(camRef, pt)),
                   res |-> screenRaycast(pt, pos, camRef, world)]
  /\ UNCHANGED <<worldVars, physVars, meshVars, inputVars, miningVars, timerVars,
                 itemVars, lastOp>>

InitRay ==
  /\ world \in RayWorlds
  /\ worldVersion = 0
  /\ gen = NoGen
  /\ pos \in {[x |-> o[1], y |-> o[2], z |-> o[3]] : o \in RayOrigins}
  /\ velY = 0
  /\ onGround = FALSE
  /\ ticks = 0
  /\ lastMove = [branch |-> "none", xOk |-> FALSE, zOk |-> FALSE]
  /\ InitMesh
  /\ camRef \in AllCams
  /\ holdTouchPos = ScreenCorner
  /\ isHolding = FALSE
  /\ lookTouch = NoTouch
  /\ miningRef = NoMining
  /\ miningProgress = 0
  /\ miningActive = FALSE
  /\ rafRef = FALSE
  /\ rafPending = 0
  /\ curStartTimer = FALSE
  /\ oldStartTimers = 0
  /\ retargetTimers = 0
  /\ droppedItems = << >>
  /\ nextId = 0
  /\ inventory = createFullInventory
  /\ inventoryRef = createFullInventory
  /\ selectedIndex = 0
  /\ craftingTableOpen = FALSE
  /\ screen = NoScreen
  /\ rayResult = NoRay
  /\ lastOp = NoOp

NextRay ==
  \/ CastLook
  \/ \E pt \in {ScreenCorner, ScreenCentre, ScreenBelow} : CastScreen(pt)

SpecRay == InitRay /\ [][NextRay]_vars

\* the sample of iteration k of a cast, and whether it lies in a voxel whose
\* block is neither absent, air nor water
CastSample(k) ==
  sampleCell(rayResult.origin, rayResult.dir, RAY_START + (k - 1) * RAY_STEP)
CastBlocked(k) ==
  /\ CastSample(k) \in DOMAIN world
  /\ world[CastSample(k)] # AIR
  /\ world[CastSample(k)] # WATER

\* C10: a cast returns the voxel of the first sample (t = 0.3, 0.34, ... < 6)
\* that lies in a voxel whose block is neither absent, air nor water, with
\* that voxel's block type; it returns null when no sample lies in such a voxel
FirstBlockedSampleReturned ==
  rayResult.called =>
    IF \E k \in 1..raySteps : CastBlocked(k)
    THEN /\ rayResult.res.hit
         /\ \E k \in 1..raySteps :
              /\ CastBlocked(k)
              /\ \A j \in 1..(k - 1) : ~CastBlocked(j)
              /\ <<rayResult.res.x, rayResult.res.y, rayResult.res.z>> = CastSample(k)
              /\ rayResult.res.blockType = world[CastSample(k)]
    ELSE rayResult.res = NoHit

\* C10 witness: a cast went through the water cell and returned the stone
\* block behind it
StoneSeenThroughWater ==
  /\ rayResult.called
  /\ rayResult.res.hit
  /\ <<rayResult.res.x, rayResult.res.y, rayResult.res.z>> = <<3, 2, 0>>
  /\ rayResult.res.blockType = STONE
  /\ \E k \in 1..raySteps :
       /\ CastSample(k) = <<2, 2, 0>>
       /\ has(world, <<2, 2, 0>>) /\ world[<<2, 2, 0>>] = WATER

\* ---- The placement cell of a cast -----------------------------------------
\* the iteration at which the cast returned
CastHitStep ==
  CHOOSE k \in 1..raySteps : CastBlocked(k) /\ \A j \in 1..(k - 1) : ~CastBlocked(j)

\* the cell of the ray point at distance tm / 1000 from the origin
RayCellAt(tm) ==
  <<Floor(rayResult.origin[1] + rayResult.dir[1] * tm),
    Floor(rayResult.origin[2] + rayResult.dir[2] * tm),
    Floor(rayResult.origin[3] + rayResult.dir[3] * tm)>>

CastHitCell == <<rayResult.res.x, rayResult.res.y, rayResult.res.z>>
CastPlaceCell == <<rayResult.res.placeX, rayResult.res.placeY, rayResult.res.placeZ>>

\* C11: when a cast reports a hit, its placement cell differs from the hit
\* cell, is not a solid voxel, and is the cell the ray was in just before it
\* entered the hit cell: from the origin (first iteration) or from the sample
\* before the hit up to the hit sample the ray is in no third cell
PlacementIsCellBefore ==
  (rayResult.called /\ rayResult.res.hit) =>
    LET from == IF CastHitStep = 1 THEN 0
                ELSE (RAY_START + (CastHitStep - 2) * RAY_STEP) * 10
        to == (RAY_START + (CastHitStep - 1) * RAY_STEP) * 10
    IN  /\ CastPlaceCell # CastHitCell
        /\ ~isSolid(world, CastPlaceCell[1], CastPlaceCell[2], CastPlaceCell[3])
        /\ \A tm \in from..to : RayCellAt(tm) \in {CastPlaceCell, CastHitCell}

\* ---- Face culling of the mesh builder ------------------------------------
\* a stone block enclosed by six stone blocks, and to its right two leaf
\* blocks side by side with air behind them
CullWorld ==
  LET stones == {<<1, 1, 1>>, <<0, 1, 1>>, <<2, 1, 1>>, <<1, 0, 1>>, <<1, 2, 1>>,
                 <<1, 1, 0>>, <<1, 1, 2>>}
  IN  [k \in stones |-> STONE] @@ (<<3, 1, 1>> :> LEAVES) @@ (<<4, 1, 1>> :> LEAVES)

\* the cells that are edited: the block on top of the enclosed one, the
\* outer leaf block
CullCells == {<<1, 2, 1>>, <<4, 1, 1>>}

\* a block is mined, or a block of some type is placed
CullEdit ==
  /\ \E key \in CullCells :
       IF has(world, key) THEN mutateWorld(mapDelete(world, key))
       ELSE \E bt \in {STONE, LEAVES, WATER} : mutateWorld(mapSet(world, key, bt))
  /\ UNCHANGED <<physVars, meshVars, gameVars>>

InitCull ==
  /\ world = CullWorld
  /\ worldVersion = 0
  /\ gen = NoGen
  /\ InitPlayer
  /\ InitMesh
  /\ InitGame

NextCull ==
  \/ CullEdit
  \/ VoxelChunkEffect
  \/ \E t \in buildTimers : BuildTimer(t)

SpecCull == InitCull /\ [][NextCull]_vars

\* the neighbour of cell k across face f is absent or air
NeighbourOpen(w, k, f) ==
  LET n == <<k[1] + FACES[f][1], k[2] + FACES[f][2], k[3] + FACES[f][3]>>
  IN  n \notin DOMAIN w \/ w[n] = AIR

\* the neighbour of cell k across face f is a leaf block
NeighbourLeaves(w, k, f) ==
  LET n == <<k[1] + FACES[f][1], k[2] + FACES[f][2], k[3] + FACES[f][3]>>
  IN  n \in DOMAIN w /\ w[n] = LEAVES

\* C12: a geometry that is applied holds, for every voxel of the world that is
\* not air and each of its six directions, a face exactly when the neighbour
\* is air or absent, or the neighbour is leaves and the voxel is not leaves;
\* it holds no other face
FaceCullingRule ==
  [][geo' # geo =>
       /\ \A k \in DOMAIN world : \A f \in 1..6 :
            (<<k[1], k[2], k[3], f>> \in geo'.mesh) <=>
              (/\ world[k] # AIR
               /\ \/ NeighbourOpen(world, k, f)
                  \/ (NeighbourLeaves(world, k, f) /\ world[k] # LEAVES))
       /\ \A q \in geo'.mesh : <<q[1], q[2], q[3]>> \in DOMAIN world /\ q[4] \in 1..6]_vars

\* C12 witness: the applied geometry is the mesh of the starting world: no
\* face of the enclosed stone block, no face between the two leaf blocks, the
\* face of the outer leaf block towards the air, and the face of the stone
\* block towards the inner leaf block
CulledMeshApplied ==
  /\ geo # NoGeo
  /\ world = CullWorld
  /\ \A f \in 1..6 : <<1, 1, 1, f>> \notin geo.mesh
  /\ <<3, 1, 1, 3>> \notin geo.mesh /\ <<4, 1, 1, 4>> \notin geo.mesh
  /\ <<4, 1, 1, 3>> \in geo.mesh
  /\ <<2, 1, 1, 3>> \in geo.mesh

\* ---- Falling onto a flat layer -------------------------------------------
\* a flat 4x4 stone layer at y0, nothing else
FlatWorld(y0) == [k \in {<<x, y0, z>> : x \in 0..3, z \in 0..3} |-> STONE]

\* frames of 16 ms are drawn among the first MaxFineTicks frames of a run,
\* later frames are slow ones (dt is clamped to 50 ms)
MaxFineTicks == 5

\* the player is released at x = 2, z = 2 with the camera, or the feet, 5 above
\* the layer's cells
DropFeet == {5 * U, 5 * U - EYE}

InitDrop ==
  /\ \E y0 \in FloorLevels : \E up \in DropFeet :
       /\ world = FlatWorld(y0)
       /\ pos = [x |-> 2 * U, y |-> y0 * U + up + EYE, z |-> 2 * U]
  /\ velY = 0
  /\ onGround = FALSE
  /\ worldVersion = 0
  /\ gen = NoGen
  /\ ticks = 0
  /\ lastMove = [branch |-> "none", xOk |-> FALSE, zOk |-> FALSE]
  /\ InitMesh
  /\ InitGame

\* the frame count of a run: exact up to MaxFineTicks, then only its parity
frameCount(n) == IF n < MaxFineTicks THEN n + 1 ELSE 2 * MaxFineTicks + 1 - n

\* a frame with moveRef at rest and no 'mc-jump'
DropFrame(delta) ==
  /\ delta < 50 => ticks < MaxFineTicks
  /\ useFrame(delta, <<0, 0>>, <<0, 1000>>, frameCount(ticks))

NextDrop == \E delta \in Deltas : DropFrame(delta)

\* every step of a run is a frame, and every frame counts
FrameCounted == ticks' = frameCount(ticks)

\* useFrame runs on every animation frame: frames never stop coming
SpecDrop == InitDrop /\ [][NextDrop]_vars /\ WF_ticks(FrameCounted)

surfaceTop == (CHOOSE k \in DOMAIN world : TRUE)[2] + 1

\* C13: ground snap -- released above a flat layer with no horizontal input
\* and no jump, the player reaches a frame after which onGround is true and
\* the feet height (pos.y - EYE, as the next frame reads it) is exactly the
\* integer top of the layer, and stays so in every later frame.
GroundSnap ==
  <>[](onGround /\ fromEye(pos.y) = surfaceTop * U)

\* ---- Worlds with explicit air entries -------------------------------------
\* the cells around the standing places that the placement world leaves empty
AirRegion ==
  {<<x, y, z>> : x \in 0..1, y \in 1..2, z \in 0..2} \ DOMAIN PlaceWorld

\* the placement world with the value AIR stored at some of its empty cells
withAir(cells) == [k \in cells |-> AIR] @@ PlaceWorld
AirWorlds == { withAir({<<0, 2, 1>>}), withAir({<<0, 1, 0>>, <<1, 1, 0>>}),
               withAir(AirRegion) }

\* the same world with its AIR entries deleted
withoutAir(w) == [k \in {c \in DOMAIN w : w[c] # AIR} |-> w[k]]

InitAir == \E w \in AirWorlds : InitPlaceIn(w)

SpecAir == InitAir /\ [][NextPlace]_vars

StartMiningNoHit ==
  \/ onMouseDown(0) /\ ~aimRaycast(NullType).hit
  \/ RetargetTimer /\ isHolding /\ ~aimRaycast(holdTouchPos).hit

\* C15: a placement or mining attempt whose raycast returns no hit does
\* nothing -- placeBlock leaves the world map, the version counter and the
\* inventory unchanged; startMining removes no block, bumps no version and
\* leaves the machine Idle.
NoHitDoesNothing ==
  [][/\ lastOp' = [op |-> "placeBlock", out |-> "nohit"]
          => world' = world /\ worldVersion' = worldVersion /\ inventory' = inventory
     /\ StartMiningNoHit
          => /\ world' = world /\ worldVersion' = worldVersion
             /\ miningRef' = NoMining /\ ~miningActive' /\ miningProgress' = 0]_vars

\* the button is held with the machine Idle and nothing pending after a
\* raycast that hit nothing, and a placement has just found nothing to hit
NoHitAttemptsMade ==
  /\ lastOp = [op |-> "placeBlock", out |-> "nohit"]
  /\ isHolding /\ ~miningRef.active /\ ~miningActive
  /\ retargetTimers = 0 /\ rafPending = 0
  /\ ~aimRaycast(NullType).hit

\* ---- generateTerrain -------------------------------------------------------
\* 32-bit words are pairs <<high 16 bits, low 16 bits>>
RECURSIVE xorBits(_, _, _)
xorBits(a, b, n) ==
  IF n = 0 THEN 0
  ELSE ((a + b) % 2) + 2 * xorBits(a \div 2, b \div 2, n - 1)

\* a ^ b on four bits from a table, and on sixteen bits from its four nibbles
XorTable == [a \in 0..15 |-> [b \in 0..15 |-> xorBits(a, b, 4)] @@ << >>] @@ << >>
xor16(a, b) ==
  XorTable[a % 16][b % 16] + 16 * XorTable[(a \div 16) % 16][(b \div 16) % 16]
    + 256 * XorTable[(a \div 256) % 16][(b \div 256) % 16]
    + 4096 * XorTable[a \div 4096][b \div 4096]

wordXor(v, w) == <<xor16(v[1], w[1]), xor16(v[2], w[2])>>
wordAdd(v, w) ==
  <<(v[1] + w[1] + (v[2] + w[2]) \div 65536) % 65536, (v[2] + w[2]) % 65536>>
wordNeg(v) ==
  <<(65535 - v[1] + (IF v[2] = 0 THEN 1 ELSE 0)) % 65536, (65536 - v[2]) % 65536>>

\* ToInt32(n * c) for a small integer n and a 32-bit constant c
wordTimes(n, c) ==
  <<(n * c[1] + (n * c[2]) \div 65536) % 65536, (n * c[2]) % 65536>>

HashA == <<5718, 26545>>              \* 374761393
HashB == <<10196, 60207>>             \* 668265263
HashC == <<97, 159, 241, 75>>         \* 1274126177, bytes from the lowest

\* the bytes of a word, and of the product of two 4-byte numbers
wordBytes(v) == <<v[2] % 256, v[2] \div 256, v[1] % 256, v[1] \div 256>>
RECURSIVE productBytes(_, _, _, _)
productBytes(a, b, i, carry) ==
  IF i > 8 THEN << >>
  ELSE LET col == carry + a[1] * (IF i \in 1..4 THEN b[i] ELSE 0)
                        + a[2] * (IF i - 1 \in 1..4 THEN b[i - 1] ELSE 0)
                        + a[3] * (IF i - 2 \in 1..4 THEN b[i - 2] ELSE 0)
                        + a[4] * (IF i - 3 \in 1..4 THEN b[i - 3] ELSE 0)
       IN  <<col % 256>> \o productBytes(a, b, i + 1, col \div 256)

RECURSIVE bitLength(_)
bitLength(n) == IF n = 0 THEN 0 ELSE 1 + bitLength(n \div 2)
RECURSIVE bytesLength(_, _)
bytesLength(p, i) ==
  IF i = 0 THEN 0
  ELSE IF p[i] # 0 THEN 8 * (i - 1) + bitLength(p[i])
  ELSE bytesLength(p, i - 1)

\* the low 32 bits of a product, given by its bytes p, as a double: the
\* product is rounded to 53 significant bits, ties to even
roundedBytes(p) ==
  LET d == Max(bytesLength(p, 8) - 53, 0)
      low == p[2] * 256 + p[1]
      rem == low % Pow2(d)
      up == d > 0 /\ (2 * rem > Pow2(d) \/ (2 * rem = Pow2(d) /\ (low \div Pow2(d)) % 2 = 1))
  IN  wordAdd(<<p[4] * 256 + p[3], low - rem>>, <<0, IF up THEN Pow2(d) ELSE 0>>)

\* ToInt32 of t * 1274126177 for the signed word t
roundedProduct(t) ==
  IF t[1] >= 32768
  THEN CHOOSE r \in {wordNeg(roundedBytes(p)) :
                       p \in {productBytes(wordBytes(wordNeg(t)), HashC, 1, 0)}} : TRUE
  ELSE CHOOSE r \in {roundedBytes(p) :
                       p \in {productBytes(wordBytes(t), HashC, 1, 0)}} : TRUE

\* (x * 374761393 + z * 668265263) ^ ((x * 668265263) + (z * 374761393))
hashMix(x, z) ==
  wordXor(wordAdd(wordTimes(x, HashA), wordTimes(z, HashB)),
          wordAdd(wordTimes(x, HashB), wordTimes(z, HashA)))

\* h ^ (h >>> 13)
hashShift(h) ==
  wordXor(h, <<h[1] \div 8192, (h[1] % 8192) * 8 + h[2] \div 8192>>)

\* hash(x, z) before its division by 0x7fffffff: h & 0x7fffffff
hashBits(x, z) ==
  CHOOSE v \in {(h[1] % 32768) * 65536 + h[2] :
                  h \in {roundedProduct(t) :
                           t \in {hashShift(h1) : h1 \in {hashMix(x, z)}}}} : TRUE

\* hash(x, z) in 1/32768
hash(x, z) == hashBits(x, z) \div 65536

\* smoothNoise(n / 20, m / 20) in 1/32768: the fractions are r / 20, and
\* f * f * (3 - 2 * f) is r * r * (60 - 2 * r) / 8000
smoothNoise(n, m) ==
  LET ix == n \div 20
      iz == m \div 20
      ux == (n % 20) * (n % 20) * (60 - 2 * (n % 20))
      uz == (m % 20) * (m % 20) * (60 - 2 * (m % 20))
      a == hash(ix, iz)
      b == hash(ix + 1, iz)
      c == hash(ix, iz + 1)
      d == hash(ix + 1, iz + 1)
  IN  a + ((b - a) * ux) \div 8000 + ((c - a) * uz) \div 8000
        + ((((d - b - c + a) * ux) \div 8000) * uz) \div 8000

\* octaveNoise(n / 20, m / 20, 4) * 15 / 8, in 1/32768 of an eighth: the
\* amplitudes 1, 1/2, 1/4, 1/8 are 8, 4, 2, 1 and their sum max is 15
octaveNoise(n, m) ==
  8 * smoothNoise(n, m) + 4 * smoothNoise(2 * n, 2 * m)
    + 2 * smoothNoise(4 * n, 4 * m) + smoothNoise(8 * n, 8 * m)

SEA_LEVEL == 4
MAX_HEIGHT == 12

\* Math.floor(SEA_LEVEL + heightNoise * MAX_HEIGHT) of the column (x, z)
columnHeight(x, z, seed) ==
  SEA_LEVEL + (MAX_HEIGHT * octaveNoise(x + seed, z + seed)) \div (15 * 32768)

\* a y loop with one layer of dirt, and snow from SEA_LEVEL + 8 on
columnBlockThinDirt(y, height) ==
  IF y = height
  THEN IF height < SEA_LEVEL + 1 THEN SAND
       ELSE IF height >= SEA_LEVEL + 8 THEN SNOW ELSE GRASS
  ELSE IF y > height - 2 THEN DIRT ELSE STONE

\* the block type of the y loop
columnBlock(y, height) ==
  IF y = height
  THEN IF height < SEA_LEVEL + 1 THEN SAND
       ELSE IF height > SEA_LEVEL + 8 THEN SNOW ELSE GRASS
  ELSE IF y > height - 3 THEN DIRT ELSE STONE

\* a tree test that also reads how many calls came before
hasTreeByCall(x, z, seed, height) ==
  /\ height >= SEA_LEVEL + 2 /\ height <= SEA_LEVEL + 8
  /\ hashBits(x * 7 + seed + gen.call - 1, z * 7 + seed) > 1975684955

\* height in SEA_LEVEL + 2 .. SEA_LEVEL + 8 and treeNoise > 0.92
hasTree(x, z, seed, height) ==
  /\ height >= SEA_LEVEL + 2 /\ height <= SEA_LEVEL + 8
  /\ hashBits(x * 7 + seed, z * 7 + seed) > 1975684955

\* the iterations of the three leaf loops, lx outermost and ly innermost, and
\* those that pass the shape test
leafOffset(i) == <<(i \div 20) - 2, ((i \div 4) % 5) - 2, (i % 4) - 2>>
inLeafShape(i) ==
  Abs(leafOffset(i)[1]) + Abs(leafOffset(i)[2]) + Abs(leafOffset(i)[3]) < 4
nextLeaf(i) ==
  IF \E j \in i..99 : inLeafShape(j)
  THEN CHOOSE j \in i..99 : inLeafShape(j) /\ \A k \in i..(j - 1) : ~inLeafShape(k)
  ELSE 100

\* calls generateTerrain(size, seed) is made with
GenArgs == { <<2, 42>>, <<2, 68>>, <<4, 136>>, <<16, 292>> }
MaxCalls == 2

InitGen ==
  /\ world = << >>
  /\ worldVersion = 0
  /\ \E a \in GenArgs :
       gen = [phase |-> "column", size |-> a[1], seed |-> a[2], call |-> 1,
              x |-> 0 - a[1] \div 2, z |-> 0 - a[1] \div 2, height |-> 0, li |-> 0,
              first |-> << >>]
  /\ InitPlayer
  /\ InitMesh
  /\ InitGame

\* the end of the body of the z loop: on to the next column, or to the return
nextColumn(g) ==
  IF g.z + 1 < g.size \div 2 THEN [g EXCEPT !.phase = "column", !.z = g.z + 1]
  ELSE IF g.x + 1 < g.size \div 2
  THEN [g EXCEPT !.phase = "column", !.x = g.x + 1, !.z = 0 - g.size \div 2]
  ELSE [g EXCEPT !.phase = "return"]

\* the y loop of a column and the tree test
GenColumn ==
  /\ gen.phase = "column"
  /\ \E height \in {columnHeight(gen.x, gen.z, gen.seed)} :
         /\ world' = [k \in {<<gen.x, y, gen.z>> : y \in 0..height}
                        |-> columnBlock(k[2], height)] @@ world
         /\ gen' = IF hasTree(gen.x, gen.z, gen.seed, height)
                   THEN [gen EXCEPT !.phase = "trunk", !.height = height]
                   ELSE nextColumn([gen EXCEPT !.height = height])
  /\ UNCHANGED <<worldVersion, physVars, meshVars, gameVars>>

\* the trunk loop
GenTrunk ==
  /\ gen.phase = "trunk"
  /\ world' = [k \in {<<gen.x, ty, gen.z>> : ty \in (gen.height + 1)..(gen.height + 4)}
                 |-> WOOD] @@ world
  /\ gen' = [gen EXCEPT !.phase = "leaves", !.li = nextLeaf(0)]
  /\ UNCHANGED <<worldVersion, physVars, meshVars, gameVars>>

\* a leaf iteration that sets its key whatever the map holds
GenLeafOverwrites ==
  /\ gen.phase = "leaves"
  /\ LET o == leafOffset(gen.li)
         lkey == posKey(gen.x + o[1], gen.height + 5 + o[3], gen.z + o[2])
     IN  world' = mapSet(world, lkey, LEAVES)
  /\ gen' = IF nextLeaf(gen.li + 1) < 100 THEN [gen EXCEPT !.li = nextLeaf(gen.li + 1)]
            ELSE nextColumn(gen)
  /\ UNCHANGED <<worldVersion, physVars, meshVars, gameVars>>

\* one iteration of the leaf loops that passes the shape test
GenLeaf ==
  /\ gen.phase = "leaves"
  /\ LET o == leafOffset(gen.li)
         lkey == posKey(gen.x + o[1], gen.height + 5 + o[3], gen.z + o[2])
     IN  world' = IF ~has(world, lkey) THEN mapSet(world, lkey, LEAVES) ELSE world
  /\ gen' = IF nextLeaf(gen.li + 1) < 100 THEN [gen EXCEPT !.li = nextLeaf(gen.li + 1)]
            ELSE nextColumn(gen)
  /\ UNCHANGED <<worldVersion, physVars, meshVars, gameVars>>

\* return world; the next render of MinecraftGame makes the call again
GenReturn ==
  /\ gen.phase = "return"
  /\ IF gen.call < MaxCalls
     THEN /\ gen' = [gen EXCEPT !.phase = "column", !.call = gen.call + 1,
                                !.x = 0 - gen.size \div 2, !.z = 0 - gen.size \div 2,
                                !.height = 0, !.li = 0, !.first = world]
          /\ world' = << >>
     ELSE /\ gen' = [gen EXCEPT !.phase = "done"]
          /\ world' = world
  /\ UNCHANGED <<worldVersion, physVars, meshVars, gameVars>>

NextGen == GenColumn \/ GenTrunk \/ GenLeaf \/ GenReturn

SpecGen == InitGen /\ [][NextGen]_vars

\* C16: tree leaf placement never overwrites -- in every step of
\* generateTerrain, a key that holds LEAVES after the step either had no entry
\* before it or held LEAVES already, so no terrain block or trunk block is
\* replaced by leaves and no leaf is written twice over another block.
LeavesNeverOverwrite ==
  [][\A k \in DOMAIN world' :
       world'[k] = LEAVES => ~has(world, k) \/ world[k] = LEAVES]_vars

\* the leaf loops of a tree have run over the top of an earlier tree's trunk
\* and over their own trunk, and the trunks are still wood
TrunkKeptInsideLeaves ==
  /\ gen.phase = "done"
  /\ \E k \in DOMAIN world :
       /\ world[k] = WOOD
       /\ getOrAir(world, <<k[1], k[2] + 1, k[3]>>) = LEAVES
       /\ getOrAir(world, <<k[1] + 1, k[2], k[3]>>) = LEAVES
       /\ getOrAir(world, <<k[1] + 1, k[2], k[3] - 1>>) = WOOD

SpecMeshFair ==
  /\ InitMeshSpec /\ [][NextMesh]_vars
  /\ WF_vars(VoxelChunkEffect)
  /\ WF_vars(\E t \in buildTimers : BuildTimer(t))

\* C18: mesh freshness -- after the last of finitely many world mutations, a
\* geometry built from the world as that mutation left it is applied and
\* stays applied; every version of the world is followed by an applied
\* geometry built at that version or a later one.
MeshFreshness ==
  /\ <>[](geo # NoGeo /\ geo.built = worldVersion /\ geo.mesh = buildMesh(world))
  /\ \A v \in 0..(MaxVersion + 1) : (worldVersion = v) ~> (geo.built >= v)

\* a geometry built from the edited world is applied, scheduled before the
\* last edit or after it, and nothing is pending
FreshMeshAfterEdits ==
  /\ worldVersion > 0 /\ geo.built = worldVersion /\ geo.mesh = buildMesh(world)
  /\ chunkVersion = worldVersion /\ buildTimers = {}

\* ---- A drag during the start delay ---------------------------------------
\* C19: drag cancels a pending hold -- a move of the look touch beyond the
\* 10 px threshold leaves the machine Idle, and when the 200 ms timer of that
\* touch fires after such a move, with the touch still beyond the threshold,
\* no mining session starts.
DragCancelsHold ==
  [][/\ (\E pt \in FarPts : \E cam \in GameCams : handleLookTouchMove(TRUE, pt, cam))
          => ~miningRef'.active /\ ~miningActive'
     /\ (curStartTimer /\ ~curStartTimer' /\ lookTouch.active /\ lookTouch.far
           /\ lookTouch'.active)
          => ~miningRef'.active /\ ~miningActive']_vars

frameStep(delta, mv, yaw) ==
  LET mx == ((0 - mv[2]) * yaw[1] + mv[1] * yaw[2]) \div 1000
      mz == ((0 - mv[2]) * yaw[2] - mv[1] * yaw[1]) \div 1000
      sq == mx * mx + mz * mz
      ux == IF sq > 1000 * 1000 THEN (mx * 1000) \div Isqrt(sq) ELSE mx
      uz == IF sq > 1000 * 1000 THEN (mz * 1000) \div Isqrt(sq) ELSE mz
  IN  <<(ux * Min(delta, 50) * 45) \div 10, (uz * Min(delta, 50) * 45) \div 10>>

\* the frame's steps in their order, read off the states before and after it
FrameInOrder(delta, mv, yaw) ==
  LET dt == Min(delta, 50)
      fallen == velY - 28 * (U \div 1000) * dt
      v == IF fallen < (0 - 20) * U THEN (0 - 20) * U ELSE fallen
      r == moveY(pos.x, fromEye(pos.y), pos.z, (v * dt) \div 1000, v, world)
      feetY == pos'.y - EYE
      step == frameStep(delta, mv, yaw)
  IN  /\ feetY = r.feetY /\ velY' = r.velY /\ onGround' = r.onGround
      /\ velY' >= (0 - 20) * U
      /\ pos'.x = IF aabbOverlaps(pos.x + step[1], feetY, pos.z, world)
                  THEN pos.x ELSE pos.x + step[1]
      /\ pos'.z = IF aabbOverlaps(pos'.x, feetY, pos.z + step[2], world)
                  THEN pos.z ELSE pos.z + step[2]

\* C21: per-tick resolution order -- in every frame gravity is applied first
\* with the vertical velocity clamped at -20, then vertical motion is resolved
\* at the old X and Z, then the X step is accepted or rejected at the resolved
\* feet height and the old Z, then the Z step at the resolved feet height and
\* the X the frame has settled on; the two steps are tested one after the
\* other, never as one displacement.
TickOrder ==
  [][\A delta \in Deltas : \A mv \in Moves : \A yaw \in Yaws :
       CameraFrame(delta, mv, yaw) => FrameInOrder(delta, mv, yaw)]_vars

\* a frame right after a jump next to the low ceiling: the step towards the
\* ceiling was refused at the height the jump had reached, where the head is
\* in the ceiling's cell, although it was free at the height the frame began at
StepRefusedAtResolvedHeight ==
  /\ ticks = 2 /\ lastMove.branch = "free" /\ velY > 0
  /\ ~lastMove.xOk /\ lastMove.zOk
  /\ \E y0 \in FloorLevels :
       /\ world = PhysWorld(y0)
       /\ aabbOverlaps(pos.x - 225000, pos.y - EYE, pos.z, world)
       /\ ~aabbOverlaps(pos.x - 225000, (y0 + 1) * U, pos.z, world)

\* ---- Standing still --------------------------------------------------------
\* the feet height a frame reads from the camera position, and the test moveY
\* makes of it
feetHeight == fromEye(pos.y)
grounded == isOnGround(pos.x, feetHeight, pos.z, world)

\* C22: resting stability -- a frame that finds the player on the ground with
\* a vertical velocity that is not positive comes out of moveY with the feet
\* height it read, vertical velocity 0 and onGround true; with no jump and no
\* world change the next frame finds the same feet height and the player on
\* the ground again, whatever the frame deltas.
RestingStability ==
  [][\A delta \in Deltas :
       (DropFrame(delta) /\ grounded /\ velY <= 0) =>
          /\ pos'.y - EYE = feetHeight
          /\ velY' = 0 /\ onGround'
          /\ feetHeight' = feetHeight /\ grounded']_vars

\* the player has come to rest on the layer whose top is at 31, where the
\* feet height a frame reads is just below the top, and rested a frame there
RestedBelowTheTop ==
  /\ lastMove.branch = "rest" /\ onGround /\ velY = 0 /\ grounded
  /\ surfaceTop = 31 /\ feetHeight < surfaceTop * U
  /\ pos.y - EYE = feetHeight

\* ---- Horizontal steps ----------------------------------------------------
\* C23: horizontal steps are all-or-nothing -- after a frame the player's X
\* is the old X when the full X step ends in a solid voxel at the resolved
\* feet height, and the old X plus the full step otherwise; the same holds for
\* Z, tested at the X the frame has settled on; no coordinate ends in between.
AllOrNothingSteps ==
  [][\A delta \in Deltas : \A mv \in Moves : \A yaw \in Yaws :
       CameraFrame(delta, mv, yaw) =>
         LET step == frameStep(delta, mv, yaw)
             feetY == pos'.y - EYE
             xTaken == aabbOverlaps(pos.x + step[1], feetY, pos.z, world)
             zTaken == aabbOverlaps(pos'.x, feetY, pos.z + step[2], world)
         IN  /\ pos'.x \in {pos.x, pos.x + step[1]}
             /\ pos'.z \in {pos.z, pos.z + step[2]}
             /\ xTaken => pos'.x = pos.x
             /\ ~xTaken => pos'.x = pos.x + step[1]
             /\ zTaken => pos'.z = pos.z
             /\ ~zTaken => pos'.z = pos.z + step[2]]_vars

\* a frame with a diagonal move against the step block: the X step was
\* refused, the Z step taken, and the player stands short of the block by less
\* than the step that was refused
SlidAlongTheWall ==
  /\ ticks = 2 /\ ~lastMove.xOk /\ lastMove.zOk
  /\ ~aabbOverlaps(pos.x, pos.y - EYE, pos.z, world)
  /\ pos.z < U \div 2
  /\ pos.x > (3 * U) \div 2 /\ pos.x + HALF < 2 * U
  /\ aabbOverlaps(pos.x + 159075, pos.y - EYE, U \div 2, world)

\* ---- Mining at the display's frame rate ----------------------------------
\* gaps between the callbacks of the mining loop: 1/120 s, 1/60 s and 1/30 s
FrameDts == {25, 50, 100}

\* the left button is pressed and released while the frames of the mining
\* loop come at these gaps, in any mix
NextMine ==
  \/ onMouseDown(0)
  \/ onMouseUp
  \/ RetargetTimer
  \/ \E dt \in FrameDts : miningLoop(dt)

SpecMine == Init /\ [][NextMine]_vars

\* C24: frame-rate independence of mining -- a session starts with no elapsed
\* time, every callback that does not complete it adds the real time since the
\* callback before, and the session completes at the first callback at which
\* the real time summed since its start is at least the break time of the
\* target's type, however the time is split; on a stone block (1.5 s) with
\* callbacks 1/60 s apart the one that completes is the 90th, give or take one.
FrameRateIndependence ==
  [][/\ (miningRef'.active
          /\ (~miningRef.active \/ miningRef'.targetKey # miningRef.targetKey))
          => miningRef'.elapsed = 0
     /\ \A dt \in FrameDts :
          (miningLoop(dt) /\ miningRef.active) =>
             LET total == miningRef.elapsed + dt
                 done == lastOp' = Broken
             IN  /\ done <=> total >= getBlockBreakTime(miningRef.blockType)
                 /\ done => ~has(world', miningRef.targetKey) /\ ~miningRef'.active
                 /\ ~done => /\ miningRef'.active /\ miningRef'.elapsed = total
                             /\ miningRef'.targetKey = miningRef.targetKey
                             /\ world' = world
                 /\ (dt = 50 /\ miningRef.blockType = STONE) =>
                       /\ done => miningRef.elapsed \div 50 + 1 >= 89
                       /\ ~done => miningRef.elapsed \div 50 + 1 < 91]_vars

\* the stone block ahead has been broken by callbacks at most 1/30 s apart,
\* the button is still held and the re-target is due
StoneBrokenByFineFrames ==
  /\ lastOp = Broken
  /\ ~has(world, <<0, 2, 3>>) /\ worldVersion = 1
  /\ Len(droppedItems) = 1 /\ droppedItems[1].blockType = STONE
  /\ isHolding /\ retargetTimers = 1 /\ ~miningRef.active

\* ---- Pending mesh builds -------------------------------------------------
\* C25: at most one mesh build is pending -- in every state at most one
\* setTimeout callback of VoxelChunk is scheduled and neither run nor
\* cancelled, and after a run of the effect the only one pending is the one
\* that run scheduled, for the version it ran for.
OneBuildPending ==
  /\ [](Cardinality(buildTimers) <= 1)
  /\ [][chunkVersion' # chunkVersion =>
          buildTimers' = {[id |-> buildIdRef', version |-> worldVersion]}]_vars

\* the effect has run a second time while the callback of its first run was
\* still pending: that callback is gone without having run, the second one is
\* pending
FirstBuildCancelled ==
  /\ buildIdRef = 2 /\ lastBuild = "none" /\ geo = NoGeo
  /\ buildTimers = {[id |-> 2, version |-> worldVersion]}
  /\ worldVersion > 0

\* ---- The columns of the terrain -----------------------------------------
\* the columns of a call: x and z from -size / 2 up to size / 2 - 1
genColumns == (0 - gen.size \div 2)..(gen.size \div 2 - 1)

\* C26: terrain column layering -- in the map generateTerrain returns, every
\* column (x, z) of the square, with h its computed height, has a block at
\* every y from 0 to h; the block at h is sand if h < 5, snow if h > 12 and
\* grass otherwise, the blocks at h - 1 and h - 2 are dirt and every block
\* from h - 3 down is stone.
ColumnLayering ==
  gen.phase \in {"return", "done"} =>
    \A x \in genColumns : \A z \in genColumns :
      \E h \in {columnHeight(x, z, gen.seed)} :
        \A y \in 0..h :
          /\ has(world, <<x, y, z>>)
          /\ world[<<x, y, z>>] =
               IF y = h THEN (IF h < 5 THEN SAND ELSE IF h > 12 THEN SNOW ELSE GRASS)
               ELSE IF y = h - 1 \/ y = h - 2 THEN DIRT
               ELSE STONE

\* a call has returned a map with a sand column, a snow column and grass
\* columns, of which one is of height 12, the highest that is grass, and one
\* has the trunk of a tree on its top
SandSnowAndGrassReturned ==
  /\ gen.phase = "done"
  /\ \E k \in DOMAIN world : world[k] = SAND /\ k[2] = 4
  /\ \E k \in DOMAIN world : world[k] = SNOW /\ k[2] = 13
  /\ \E k \in DOMAIN world : world[k] = GRASS /\ k[2] = 12
  /\ \E k \in DOMAIN world :
       world[k] = GRASS /\ getOrAir(world, <<k[1], k[2] + 1, k[3]>>) = WOOD

\* ---- Placing blocks out of a small stock -----------------------------------
\* one dirt block in the first hot bar slot and one stick in the second
StockInventory ==
  [createFullInventory EXCEPT ![0] = [blockType |-> DIRT, count |-> 1],
                              ![1] = [blockType |-> STICK, count |-> 1]]

InitStock == InitPlaceWith(PlaceWorld, StockInventory)

\* right clicks, looks, slot selections and renders in any order
SpecStock == InitStock /\ [][NextPlace]_vars

\* the number of items in an inventory
RECURSIVE stockFrom(_, _)
stockFrom(inv, i) ==
  IF i >= TOTAL_SLOTS THEN 0 ELSE inv[i].count + stockFrom(inv, i + 1)
stock(inv) == stockFrom(inv, 0)

TapNeverMines ==
  [][(lookTouch.active /\ lookTouch'.active /\ miningRef'.active
        /\ (~miningRef.active \/ miningRef'.targetKey # miningRef.targetKey))
       => lookTouch.long]_vars

\* ---- InventoryScreen ------------------------------------------------------
\* The handlers of InventoryScreen; CraftingTableScreen repeats them over a
\* grid of nine craft slots.  A handler runs on the values of the last render,
\* and React renders after every pointer event, so each handler is one step on
\* the current state.  The pointer is released over the slot it went down on.
MAX_STACK == screen.maxStack
Slot(bt, n) == [blockType |-> bt, count |-> n]
isEmptySlot(s) == s.blockType = NullType \/ s.count <= 0
isFilledSlot(s) == s.blockType # NullType /\ s.count > 0
slotAt(index) ==
  IF index >= TOTAL_SLOTS THEN screen.craftSlots[index - TOTAL_SLOTS]
  ELSE inventory[index]

\* setSelectedIndex(null); setHeldItems({ blockType: null, count: 0 })
deselected(scr) == [scr EXCEPT !.selectedIndex = NullIndex, !.heldItems = EmptySlot]

gameUnchanged ==
  UNCHANGED <<worldVars, physVars, meshVars, inputVars, miningVars, timerVars,
              droppedItems, nextId, inventoryRef, selectedIndex, craftingTableOpen,
              rayResult>>

\* pointer down on inventory slot index: arms the long press when the slot
\* holds more than one item and nothing is selected or held
handleSplitPointerDown(index) ==
  LET slot == slotAt(index)
      returns == \/ slot.blockType = NullType \/ slot.count <= 1
                 \/ screen.selectedIndex # NullIndex
                 \/ screen.heldItems.blockType # NullType
  IN  /\ screen.open
      /\ screen.pointer = NullIndex
      /\ screen' = IF returns
                   THEN [screen EXCEPT !.pointer = index]
                   ELSE [screen EXCEPT !.pointer = index, !.isSplitting = FALSE,
                                       !.longPressTimer =
                                         [armed |-> TRUE, index |-> index,
                                          blockType |-> slot.blockType,
                                          count |-> slot.count]]
      /\ lastOp' = [op |-> "handleSplitPointerDown",
                    out |-> IF returns THEN "return" ELSE "armed"]
      /\ UNCHANGED inventory
      /\ gameUnchanged

\* the 400 ms callback: half of the stack, rounded up, is proposed
LongPressTimer ==
  LET t == screen.longPressTimer
  IN  /\ t.armed
      /\ screen' = [screen EXCEPT !.longPressTimer.armed = FALSE,
                                  !.isSplitting = TRUE,
                                  !.splitState =
                                    [active |-> TRUE, index |-> t.index,
                                     blockType |-> t.blockType, total |-> t.count,
                                     selected |-> (t.count + 1) \div 2]]
      /\ lastOp' = [op |-> "longPress", out |-> "split"]
      /\ UNCHANGED inventory
      /\ gameUnchanged

\* Math.max(1, Math.min(total, Math.round(ratio * total))) with
\* ratio = clamp(0.5 + dx / 120); Math.round rounds halves up
splitSelected(dx, total) ==
  LET num == Max(0, Min(120, 60 + dx)) * total
      rounded == (2 * num + 120) \div 240
  IN  Max(1, Min(total, rounded))

handleSplitPointerMove(dx) ==
  /\ screen.pointer # NullIndex
  /\ IF ~screen.splitState.active
     THEN /\ screen.longPressTimer.armed /\ Abs(dx) > 10
          /\ screen' = [screen EXCEPT !.longPressTimer.armed = FALSE]
          /\ lastOp' = [op |-> "handleSplitPointerMove", out |-> "cancel"]
     ELSE /\ screen' = [screen EXCEPT !.splitState.selected =
                                        splitSelected(dx, screen.splitState.total)]
          /\ lastOp' = [op |-> "handleSplitPointerMove", out |-> "select"]
  /\ UNCHANGED inventory
  /\ gameUnchanged

\* the state after handleSplitPointerUp: the selected part is held, the rest
\* stays in the slot
splitPickUp ==
  LET sp == screen.splitState
      remaining == sp.total - sp.selected
      rest == IF remaining > 0 THEN Slot(sp.blockType, remaining) ELSE EmptySlot
      scr == [screen EXCEPT !.heldItems = Slot(sp.blockType, sp.selected),
                            !.isSplitPick = TRUE, !.selectedIndex = sp.index,
                            !.splitState = NoSplit, !.isSplitting = FALSE,
                            !.longPressTimer.armed = FALSE]
  IN  IF sp.index >= TOTAL_SLOTS
      THEN [inv |-> inventory,
            scr |-> [scr EXCEPT !.craftSlots[sp.index - TOTAL_SLOTS] = rest],
            out |-> "split"]
      ELSE [inv |-> [inventory EXCEPT ![sp.index] = rest], scr |-> scr,
            out |-> "split"]

\* handleSlotClick, source in a craft slot
slotClickFromCraft(index) ==
  LET ci == screen.selectedIndex - TOTAL_SLOTS
      held == screen.heldItems
      sourceSlot == IF held.blockType # NullType THEN held ELSE screen.craftSlots[ci]
      targetSlot == inventory[index]
      sourceEmpty == isEmptySlot(sourceSlot)
      targetEmpty == isEmptySlot(targetSlot)
      same == isFilledSlot(sourceSlot) /\ targetSlot.blockType = sourceSlot.blockType
      total == targetSlot.count + sourceSlot.count
      nextInvSlot ==
        IF same
        THEN Slot(targetSlot.blockType, IF total <= MAX_STACK THEN total ELSE MAX_STACK)
        ELSE Slot(sourceSlot.blockType, sourceSlot.count)
      nextCraftSlot ==
        IF same
        THEN IF total <= MAX_STACK THEN EmptySlot
             ELSE Slot(sourceSlot.blockType, total - MAX_STACK)
        ELSE IF ~targetEmpty THEN Slot(targetSlot.blockType, targetSlot.count)
             ELSE EmptySlot
  IN  IF sourceEmpty /\ targetEmpty
      THEN [inv |-> inventory, scr |-> deselected(screen), out |-> "nothing"]
      ELSE [inv |-> [inventory EXCEPT ![index] = nextInvSlot],
            scr |-> deselected([screen EXCEPT !.craftSlots[ci] = nextCraftSlot]),
            out |-> "fromCraft"]

\* handleSlotClick, source in the inventory
slotClickWithin(index) ==
  LET sel == screen.selectedIndex
      held == screen.heldItems
      source == IF held.blockType # NullType THEN held ELSE inventory[sel]
      target == inventory[index]
      sourceEmpty == isEmptySlot(source)
      targetEmpty == isEmptySlot(target)
      splitMove == screen.isSplitPick
      same == isFilledSlot(source) /\ target.blockType = source.blockType
      total == target.count + source.count
      leftover == total - MAX_STACK
      existing == inventory[sel]
      placedHeld == [inventory EXCEPT ![index] = Slot(source.blockType, source.count)]
      free == {i \in DOMAIN inventory : isEmptySlot(inventory[i]) /\ i # index}
      firstFree == CHOOSE i \in free : \A j \in free : i <= j
      next ==
        IF same
        THEN IF total <= MAX_STACK
             THEN IF ~splitMove
                  THEN [inventory EXCEPT ![index] = Slot(target.blockType, total),
                                         ![sel] = EmptySlot]
                  ELSE [inventory EXCEPT ![index] = Slot(target.blockType, total)]
             ELSE IF splitMove /\ existing.blockType = source.blockType
                  THEN [inventory EXCEPT
                          ![index] = Slot(target.blockType, MAX_STACK),
                          ![sel] = Slot(source.blockType, existing.count + leftover)]
                  ELSE [inventory EXCEPT
                          ![index] = Slot(target.blockType, MAX_STACK),
                          ![sel] = Slot(source.blockType, leftover)]
        ELSE IF splitMove
        THEN IF targetEmpty THEN placedHeld
             ELSE IF isEmptySlot(existing)
             THEN [placedHeld EXCEPT ![sel] = Slot(target.blockType, target.count)]
             ELSE IF /\ existing.blockType = target.blockType
                     /\ existing.count + target.count <= MAX_STACK
             THEN [placedHeld EXCEPT
                     ![sel] = Slot(target.blockType, existing.count + target.count)]
             ELSE IF free # {}
             THEN [placedHeld EXCEPT ![firstFree] = Slot(target.blockType, target.count)]
             ELSE inventory
        ELSE [inventory EXCEPT ![sel] = Slot(target.blockType, target.count),
                               ![index] = Slot(source.blockType, source.count)]
      aborted ==
        /\ ~same /\ splitMove /\ ~targetEmpty /\ ~isEmptySlot(existing)
        /\ ~(/\ existing.blockType = target.blockType
             /\ existing.count + target.count <= MAX_STACK)
        /\ free = {}
  IN  IF sourceEmpty /\ targetEmpty
      THEN [inv |-> inventory, scr |-> deselected(screen), out |-> "nothing"]
      ELSE IF aborted
      THEN [inv |-> inventory, scr |-> screen, out |-> "abort"]
      ELSE [inv |-> next, scr |-> deselected(screen),
            out |-> IF same THEN "merge" ELSE IF splitMove THEN "splitMove" ELSE "swap"]

handleSlotClick(index) ==
  IF screen.isSplitting \/ screen.splitState.active
  THEN [inv |-> inventory, scr |-> screen, out |-> "splitting"]
  ELSE IF screen.selectedIndex = NullIndex
  THEN IF isEmptySlot(inventory[index])
       THEN [inv |-> inventory, scr |-> screen, out |-> "empty"]
       ELSE [inv |-> inventory,
             scr |-> [screen EXCEPT !.selectedIndex = index,
                                    !.heldItems = Slot(inventory[index].blockType,
                                                       inventory[index].count),
                                    !.isSplitPick = FALSE],
             out |-> "pick"]
  ELSE IF screen.selectedIndex = index
  THEN [inv |-> inventory, scr |-> deselected(screen), out |-> "deselect"]
  ELSE IF screen.selectedIndex >= TOTAL_SLOTS
  THEN slotClickFromCraft(index)
  ELSE slotClickWithin(index)

\* pointer up on inventory slot index: a click, or the end of a split
SlotPointerUp(index) ==
  /\ screen.pointer = index
  /\ \E r \in {IF ~screen.isSplitting /\ ~screen.splitState.active
               THEN handleSlotClick(index) ELSE splitPickUp} :
       /\ inventory' = r.inv
       /\ screen' = [r.scr EXCEPT !.pointer = NullIndex,
                                  !.longPressTimer.armed = FALSE]
       /\ lastOp' = [op |-> "pointerUp", out |-> r.out]
  /\ gameUnchanged

\* pointer down on craft slot craftIndex
handleCraftSlotClick(craftIndex) ==
  LET virtualIndex == TOTAL_SLOTS + craftIndex
      sel == screen.selectedIndex
      held == screen.heldItems
      cs == screen.craftSlots[craftIndex]
      isSourceCraft == sel >= TOTAL_SLOTS
      sourceSlot == IF held.blockType # NullType THEN held
                    ELSE IF isSourceCraft THEN screen.craftSlots[sel - TOTAL_SLOTS]
                    ELSE inventory[sel]
      targetSlot == cs
      sourceEmpty == isEmptySlot(sourceSlot)
      targetEmpty == isEmptySlot(targetSlot)
      same == isFilledSlot(sourceSlot) /\ targetSlot.blockType = sourceSlot.blockType
      total == targetSlot.count + sourceSlot.count
      newTarget ==
        IF same
        THEN Slot(sourceSlot.blockType, IF total <= MAX_STACK THEN total ELSE MAX_STACK)
        ELSE Slot(sourceSlot.blockType, sourceSlot.count)
      newSource ==
        IF same
        THEN IF total <= MAX_STACK THEN EmptySlot
             ELSE Slot(sourceSlot.blockType, total - MAX_STACK)
        ELSE Slot(targetSlot.blockType, targetSlot.count)
      nextCraft == [screen.craftSlots EXCEPT ![craftIndex] = newTarget]
      existing == inventory[sel]
      r ==
        IF sel = NullIndex
        THEN IF isFilledSlot(cs)
             THEN [inv |-> inventory,
                   scr |-> [screen EXCEPT !.heldItems = Slot(cs.blockType, cs.count),
                                          !.selectedIndex = virtualIndex,
                                          !.isSplitPick = FALSE],
                   out |-> "pick"]
             ELSE [inv |-> inventory, scr |-> screen, out |-> "empty"]
        ELSE IF sel = virtualIndex
        THEN [inv |-> inventory,
              scr |-> deselected(
                        IF isFilledSlot(held)
                        THEN [screen EXCEPT !.craftSlots[craftIndex] =
                                              Slot(held.blockType, held.count)]
                        ELSE screen),
              out |-> "putBack"]
        ELSE IF sourceEmpty /\ targetEmpty
        THEN [inv |-> inventory, scr |-> deselected(screen), out |-> "nothing"]
        ELSE IF isSourceCraft
        THEN [inv |-> inventory,
              scr |-> deselected(
                        [screen EXCEPT !.craftSlots =
                           [nextCraft EXCEPT ![sel - TOTAL_SLOTS] =
                              IF isFilledSlot(newSource) THEN newSource
                              ELSE EmptySlot]]),
              out |-> "craftToCraft"]
        ELSE [inv |-> IF ~screen.isSplitPick
                      THEN [inventory EXCEPT ![sel] = newSource]
                      ELSE IF isFilledSlot(newSource)
                      THEN IF existing.blockType = newSource.blockType
                           THEN [inventory EXCEPT ![sel] =
                                   Slot(newSource.blockType,
                                        existing.count + newSource.count)]
                           ELSE IF isEmptySlot(existing)
                           THEN [inventory EXCEPT ![sel] = newSource]
                           ELSE inventory
                      ELSE inventory,
              scr |-> deselected([screen EXCEPT !.craftSlots = nextCraft]),
              out |-> "toCraft"]
  IN  /\ screen.open
      /\ screen.pointer = NullIndex
      /\ inventory' = r.inv
      /\ screen' = r.scr
      /\ lastOp' = [op |-> "handleCraftSlotClick", out |-> r.out]
      /\ gameUnchanged

\* ---- Item conservation in the inventory screen ---------------------------
\* the values tried for MAX_STACK
MaxStacks == {4, 64}
\* the inventory when the screen opens: two stacks of dirt, which fit into one
\* stack of 64 and not into one of 4, and a plank
ScreenInventory ==
  [createFullInventory EXCEPT ![0] = Slot(DIRT, 3), ![1] = Slot(DIRT, 2),
                              ![2] = Slot(PLANKS, 1)]
\* the inventory slots and the craft slots the pointer goes to, and where a
\* split drag ends relative to where it began
ScreenSlots == {0, 1, 2}
CraftIndices == {0, 1}
SplitDxs == {0 - 60, 0, 60}

\* the game with the inventory screen open on inventory inv, the screen's
\* state being scr
InitScreenIn(inv, scr) ==
  /\ world = PlaceWorld
  /\ worldVersion = 0
  /\ gen = NoGen
  /\ InitPlayer
  /\ InitMesh
  /\ camRef = CamZero
  /\ holdTouchPos = ScreenCorner
  /\ isHolding = FALSE
  /\ lookTouch = NoTouch
  /\ miningRef = NoMining
  /\ miningProgress = 0
  /\ miningActive = FALSE
  /\ rafRef = FALSE
  /\ rafPending = 0
  /\ curStartTimer = FALSE
  /\ oldStartTimers = 0
  /\ retargetTimers = 0
  /\ droppedItems = << >>
  /\ nextId = 0
  /\ inventory = inv
  /\ inventoryRef = inv
  /\ selectedIndex = 0
  /\ craftingTableOpen = FALSE
  /\ screen = scr
  /\ rayResult = NoRay
  /\ lastOp = NoOp

\* the screen just opened
InitScreenWith(inv, m) == InitScreenIn(inv, ScreenWith(m))

InitScreen == \E m \in MaxStacks : InitScreenWith(ScreenInventory, m)

NextScreen ==
  \/ \E index \in ScreenSlots : handleSplitPointerDown(index)
  \/ LongPressTimer
  \/ \E dx \in SplitDxs : handleSplitPointerMove(dx)
  \/ \E index \in ScreenSlots : SlotPointerUp(index)
  \/ \E craftIndex \in CraftIndices : handleCraftSlotClick(craftIndex)

SpecScreen == InitScreen /\ [][NextScreen]_vars

\* the number of items of type bt in the first n slots of a slot array
RECURSIVE countIn(_, _, _)
countIn(slots, bt, n) ==
  IF n = 0 THEN 0
  ELSE countIn(slots, bt, n - 1)
       + (IF slots[n - 1].blockType = bt THEN slots[n - 1].count ELSE 0)

\* items of type bt in the inventory slots and the craft slots
itemTotal(inv, scr, bt) ==
  countIn(inv, bt, TOTAL_SLOTS) + countIn(scr.craftSlots, bt, CRAFT_SLOTS)

\* C29: item conservation -- after any sequence of slot clicks, split picks
\* and craft-slot clicks, whenever no slot is selected and nothing is held the
\* number of items of each type in the inventory slots and the craft slots
\* together is what it was when the screen opened.
ItemConservation ==
  (screen.selectedIndex = NullIndex /\ screen.heldItems.blockType = NullType)
    => \A bt \in {DIRT, PLANKS} :
         itemTotal(inventory, screen, bt)
           = itemTotal(ScreenInventory, NoScreen, bt)

\* ---- Crafting -------------------------------------------------------------
\* craftResult of the 2x2 grid
craftResult(craft) ==
  LET filledSlots == {i \in DOMAIN craft : isFilledSlot(craft[i])}
      allPlanks == \A i \in filledSlots : craft[i].blockType = PLANKS
      column(a, b) ==
        /\ craft[a].blockType = PLANKS /\ craft[b].blockType = PLANKS
        /\ \A i \in DOMAIN craft \ {a, b} : craft[i].blockType = NullType
  IN  IF Cardinality(filledSlots) = 1
         /\ \A i \in filledSlots : craft[i].blockType = WOOD
      THEN Slot(PLANKS, 4)
      ELSE IF Cardinality(filledSlots) = 2 /\ allPlanks
              /\ (column(0, 2) \/ column(1, 3))
      THEN Slot(STICK, 4)
      ELSE IF Cardinality(filledSlots) = 4 /\ allPlanks
      THEN Slot(CRAFTING_TABLE, 1)
      ELSE EmptySlot

\* the first loop of handleResultClick from slot i on: stack into slots of
\* the result's type
RECURSIVE stackResult(_, _, _, _)
stackResult(inv, bt, remaining, i) ==
  IF i >= TOTAL_SLOTS \/ remaining <= 0
  THEN [inv |-> inv, remaining |-> remaining]
  ELSE IF inv[i].blockType = bt /\ inv[i].count < MAX_STACK
  THEN LET canAdd == Min(remaining, MAX_STACK - inv[i].count)
       IN  stackResult([inv EXCEPT ![i] = Slot(bt, inv[i].count + canAdd)], bt,
                       remaining - canAdd, i + 1)
  ELSE stackResult(inv, bt, remaining, i + 1)

\* the second loop: fill empty slots
RECURSIVE fillResult(_, _, _, _)
fillResult(inv, bt, remaining, i) ==
  IF i >= TOTAL_SLOTS \/ remaining <= 0
  THEN [inv |-> inv, remaining |-> remaining]
  ELSE IF isEmptySlot(inv[i])
  THEN LET canAdd == Min(remaining, MAX_STACK)
       IN  fillResult([inv EXCEPT ![i] = Slot(bt, canAdd)], bt,
                      remaining - canAdd, i + 1)
  ELSE fillResult(inv, bt, remaining, i + 1)

resultCommittedAlways(remaining) == TRUE

\* if (remaining > 0) return
resultCommitted(remaining) == remaining <= 0

\* one input item leaves every filled craft slot
consumeInputs(craft) ==
  [i \in DOMAIN craft |->
     IF isFilledSlot(craft[i])
     THEN IF craft[i].count - 1 <= 0 THEN EmptySlot
          ELSE Slot(craft[i].blockType, craft[i].count - 1)
     ELSE craft[i]]

\* pointer down on the result slot
handleResultClick ==
  LET res == craftResult(screen.craftSlots)
      stacked == stackResult(inventory, res.blockType, res.count, 0)
      filled == fillResult(stacked.inv, res.blockType, stacked.remaining, 0)
  IN  /\ screen.open
      /\ screen.pointer = NullIndex
      /\ IF res.blockType = NullType \/ res.count <= 0
         THEN /\ lastOp' = [op |-> "handleResultClick", out |-> "noResult"]
              /\ UNCHANGED <<inventory, screen>>
         ELSE IF ~resultCommitted(filled.remaining)
         THEN /\ lastOp' = [op |-> "handleResultClick", out |-> "noSpace"]
              /\ UNCHANGED <<inventory, screen>>
         ELSE /\ lastOp' = [op |-> "handleResultClick", out |-> "collected"]
              /\ inventory' = filled.inv
              /\ screen' = [screen EXCEPT !.craftSlots = consumeInputs(@),
                                          !.selectedIndex = NullIndex]
      /\ gameUnchanged

\* the inventories the crafting runs start from: a log and a stack of planks
\* one short of full, in an otherwise empty inventory and in one whose other
\* slots are full of dirt
CraftInventory(m) ==
  [createFullInventory EXCEPT ![0] = Slot(WOOD, 1), ![1] = Slot(PLANKS, m - 1)]
FullInventory(m) ==
  [i \in 0..(TOTAL_SLOTS - 1) |->
     IF i = 0 THEN Slot(WOOD, 1) ELSE IF i = 1 THEN Slot(PLANKS, m - 1)
     ELSE Slot(DIRT, m)]
\* the craft grids they start from, put there by earlier clicks: a log, two
\* planks in a column, four planks, two planks in a row
CraftGrids ==
  { <<Slot(WOOD, 1), EmptySlot, EmptySlot, EmptySlot>>,
    <<Slot(PLANKS, 2), EmptySlot, Slot(PLANKS, 1), EmptySlot>>,
    <<Slot(PLANKS, 2), Slot(PLANKS, 1), Slot(PLANKS, 1), Slot(PLANKS, 1)>>,
    <<Slot(PLANKS, 1), Slot(PLANKS, 1), EmptySlot, EmptySlot>> }
gridSlots(g) == [i \in 0..(CRAFT_SLOTS - 1) |-> g[i + 1]]

InitCraft ==
  \E m \in MaxStacks : \E inv \in {CraftInventory(m), FullInventory(m)} :
    \E g \in CraftGrids :
      InitScreenIn(inv, [ScreenWith(m) EXCEPT !.craftSlots = gridSlots(g)])

CraftClickSlots == {0}
CraftClickIndices == {0, 2}

NextCraft ==
  \/ \E index \in CraftClickSlots : handleSplitPointerDown(index)
  \/ \E index \in CraftClickSlots : SlotPointerUp(index)
  \/ \E craftIndex \in CraftClickIndices : handleCraftSlotClick(craftIndex)
  \/ handleResultClick

SpecCraft == InitCraft /\ [][NextCraft]_vars

\* the room for items of type bt in the first n slots: a whole stack in an
\* empty slot, the rest of the stack in a slot of that type
RECURSIVE roomIn(_, _, _)
roomIn(inv, bt, n) ==
  IF n = 0 THEN 0
  ELSE roomIn(inv, bt, n - 1)
       + (IF isEmptySlot(inv[n - 1]) THEN MAX_STACK
          ELSE IF inv[n - 1].blockType = bt /\ inv[n - 1].count < MAX_STACK
          THEN MAX_STACK - inv[n - 1].count
          ELSE 0)

\* C30: collecting a craft result is all-or-nothing -- a click on the result
\* slot while the grid holds a recipe leaves the inventory and the craft slots
\* as they were when the inventory has no room for the whole result; otherwise
\* the inventory gains exactly the result's count of the result's type, in
\* empty slots and slots of that type only, every filled craft slot loses
\* exactly one item, and no inventory slot ends above MAX_STACK.
CollectAllOrNothing ==
  [][handleResultClick =>
       LET res == craftResult(screen.craftSlots)
           craft == screen.craftSlots
       IN  isFilledSlot(res) =>
             IF roomIn(inventory, res.blockType, TOTAL_SLOTS) < res.count
             THEN inventory' = inventory /\ screen'.craftSlots = craft
             ELSE /\ countIn(inventory', res.blockType, TOTAL_SLOTS)
                       = countIn(inventory, res.blockType, TOTAL_SLOTS) + res.count
                  /\ \A i \in DOMAIN inventory :
                       \/ inventory'[i] = inventory[i]
                       \/ /\ inventory'[i].blockType = res.blockType
                          /\ inventory'[i].count > inventory[i].count
                          /\ \/ isEmptySlot(inventory[i])
                             \/ inventory[i].blockType = res.blockType
                  /\ \A i \in DOMAIN craft :
                       IF isFilledSlot(craft[i])
                       THEN screen'.craftSlots[i] =
                              (IF craft[i].count = 1 THEN EmptySlot
                               ELSE Slot(craft[i].blockType, craft[i].count - 1))
                       ELSE screen'.craftSlots[i] = craft[i]
                  /\ \A i \in DOMAIN inventory : inventory'[i].count <= MAX_STACK]_vars

\* the result slot was clicked with a recipe in the grid and room for a part
\* of the result only, and nothing was collected
ResultRefusedWithRoomForPart ==
  /\ lastOp = [op |-> "handleResultClick", out |-> "noSpace"]
  /\ isFilledSlot(craftResult(screen.craftSlots))
  /\ roomIn(inventory, craftResult(screen.craftSlots).blockType, TOTAL_SLOTS) > 0

\* ---- Closing the screen ---------------------------------------------------
\* the loop of handleClose from craft slot ci on: each filled craft slot is
\* stacked into slots of its type, then into empty slots; what is left of it
\* after the two loops is not kept anywhere
RECURSIVE returnCraft(_, _, _)
returnCraft(inv, craft, ci) ==
  IF ci >= CRAFT_SLOTS THEN inv
  ELSE IF craft[ci].blockType = NullType \/ craft[ci].count <= 0
  THEN returnCraft(inv, craft, ci + 1)
  ELSE LET stacked == stackResult(inv, craft[ci].blockType, craft[ci].count, 0)
           filled == fillResult(stacked.inv, craft[ci].blockType,
                                stacked.remaining, 0)
       IN  returnCraft(filled.inv, craft, ci + 1)

\* pointer down on the backdrop: the craft items go back and the screen
\* unmounts
handleClose ==
  LET hasItems == \E i \in DOMAIN screen.craftSlots : isFilledSlot(screen.craftSlots[i])
  IN  /\ screen.open
      /\ screen.pointer = NullIndex
      /\ inventory' = IF hasItems THEN returnCraft(inventory, screen.craftSlots, 0)
                      ELSE inventory
      /\ screen' = [ScreenWith(MAX_STACK) EXCEPT !.open = FALSE]
      /\ lastOp' = [op |-> "handleClose",
                    out |-> IF hasItems THEN "returned" ELSE "closed"]
      /\ gameUnchanged

\* HotBar's onOpenInventory: the screen mounts with its initial state
openInventory ==
  /\ ~screen.open
  /\ screen' = ScreenWith(MAX_STACK)
  /\ lastOp' = [op |-> "openInventory", out |-> "open"]
  /\ UNCHANGED inventory
  /\ gameUnchanged

NextClose ==
  \/ \E index \in CraftClickSlots : handleSplitPointerDown(index)
  \/ \E index \in CraftClickSlots : SlotPointerUp(index)
  \/ \E craftIndex \in CraftClickIndices : handleCraftSlotClick(craftIndex)
  \/ handleClose
  \/ openInventory

SpecClose == InitCraft /\ [][NextClose]_vars

\* C31: closing returns the crafting items -- after handleClose the inventory
\* holds, of every item type, what it held before plus what the craft slots
\* held, whatever the inventory held, a full one included.
CloseReturnsItems ==
  [][handleClose =>
       \A bt \in {DIRT, WOOD, PLANKS} :
         countIn(inventory', bt, TOTAL_SLOTS)
           = countIn(inventory, bt, TOTAL_SLOTS)
             + countIn(screen.craftSlots, bt, CRAFT_SLOTS)]_vars

\* ---- DroppedItems ---------------------------------------------------------
\* ages and frame times are in milliseconds, velocities in U per second
ITEM_SIZE == (3 * U) \div 10
PICKUP_RADIUS == 2
MERGE_RADIUS == 2
DESPAWN_TIME == 300 * 1000
DESPAWN_DISTANCE == 20

\* squared distances are compared in hundredths of a block
CM == U \div 100
dist2(dx, dy, dz) ==
  (dx \div CM) * (dx \div CM) + (dy \div CM) * (dy \div CM) + (dz \div CM) * (dz \div CM)
radius2(r) == r * r * 100 * 100

\* items.splice(j, 1)
spliceOut(items, j) ==
  [k \in 1..(Len(items) - 1) |-> IF k < j THEN items[k] ELSE items[k + 1]]

mergedCountKeepsOwn(a, b) == a

\* a.count += b.count
mergedCount(a, b) == a + b

\* the inner loop of the merge pass, for item i and j downwards
RECURSIVE mergeInner(_, _, _)
mergeInner(items, i, j) ==
  IF j <= i THEN items
  ELSE LET a == items[i]
           b == items[j]
       IN  IF a.blockType = b.blockType
              /\ dist2(a.x - b.x, a.y - b.y, a.z - b.z) < radius2(MERGE_RADIUS)
           THEN mergeInner(
                  spliceOut([items EXCEPT ![i].count = mergedCount(a.count, b.count)], j),
                  i, j - 1)
           ELSE mergeInner(items, i, j - 1)

\* the merge pass from item i on
RECURSIVE mergeNearby(_, _)
mergeNearby(items, i) ==
  IF i > Len(items) THEN items
  ELSE mergeNearby(mergeInner(items, i, Len(items)), i + 1)

\* the body of the second loop for one item: the item as the frame leaves it
\* and what becomes of it
itemStep(item, dt, playerPos, w) ==
  LET age == item.age + dt
      pdx == playerPos.x - item.x
      pdz == playerPos.z - item.z
      vy == item.velY - 15 * (U \div 1000) * dt
      newY == item.y + (vy * dt) \div 1000
      groundKey == posKey(Floor(item.x), Floor(newY - (15 * U) \div 100), Floor(item.z))
      onBlock == has(w, groundKey) /\ w[groundKey] # AIR /\ w[groundKey] # WATER
      y == IF onBlock
           THEN (Floor(newY - (15 * U) \div 100) + 1) * U + ITEM_SIZE \div 2
           ELSE newY
      moved == [item EXCEPT !.age = age, !.velY = IF onBlock THEN 0 ELSE vy,
                            !.y = y]
      dy == (playerPos.y - (8 * U) \div 10) - y
  IN  IF age > DESPAWN_TIME THEN [item |-> item, fate |-> "old"]
      ELSE IF dist2(pdx, 0, pdz) > radius2(DESPAWN_DISTANCE)
      THEN [item |-> item, fate |-> "far"]
      ELSE IF y < 0 - 20 * U THEN [item |-> moved, fate |-> "fallen"]
      ELSE IF dist2(pdx, dy, pdz) < radius2(PICKUP_RADIUS) /\ age > 500
      THEN [item |-> moved, fate |-> "pickup"]
      ELSE [item |-> moved, fate |-> "keep"]

\* onPickup for the items picked up, from the last item to the first
RECURSIVE pickedUp(_, _, _)
pickedUp(inv, steps, i) ==
  IF i > Len(steps) THEN inv
  ELSE LET later == pickedUp(inv, steps, i + 1)
       IN  IF steps[i].fate = "pickup"
           THEN addTimes(later, steps[i].item.blockType, steps[i].item.count)
           ELSE later

RECURSIVE keptItems(_, _)
keptItems(steps, i) ==
  IF i > Len(steps) THEN << >>
  ELSE IF steps[i].fate = "keep" THEN <<steps[i].item>> \o keptItems(steps, i + 1)
  ELSE keptItems(steps, i + 1)

\* frames of the item loop that a run takes
MaxItemTicks == 11
ItemDeltas == {50, 120}

\* DroppedItems' useFrame, delta ms after the frame before; the player stands
\* still
ItemsFrame(delta) ==
  LET dt == Min(delta, 50)
      merged == mergeNearby(droppedItems, 1)
      steps == [i \in 1..Len(merged) |-> itemStep(merged[i], dt, pos, world)]
      fates == {steps[i].fate : i \in 1..Len(merged)}
  IN  /\ ticks < MaxItemTicks
      /\ droppedItems # << >>
      /\ ticks' = ticks + 1
      /\ droppedItems' = keptItems(steps, 1)
      /\ inventory' = pickedUp(inventory, steps, 1)
      /\ lastOp' = [op |-> "itemsFrame",
                    out |-> IF "pickup" \in fates THEN "pickup"
                            ELSE IF fates \ {"keep"} # {} THEN "despawn"
                            ELSE IF Len(merged) < Len(droppedItems) THEN "merge"
                            ELSE "move"]
      /\ UNCHANGED <<worldVars, pos, velY, onGround, lastMove, meshVars, inputVars,
                     miningVars, timerVars, nextId, inventoryRef, selectedIndex,
                     craftingTableOpen, screen, rayResult>>

\* an item lying at (x, y, z), as createDroppedItem and earlier frames leave it
itemAt(id, x, y, z, vy, bt, age, count) ==
  [id |-> id, x |-> x, y |-> y, z |-> z, velY |-> vy, blockType |-> bt,
   age |-> age, count |-> count]
RestY == U + ITEM_SIZE \div 2
\* the item lists the runs start from: none; two dirt items and a stone item
\* on the floor next to the player and two grass items out of reach; an old
\* item three blocks away, an item 25 blocks away and one falling past
\* y = -20 where there is no floor
ItemStarts ==
  { << >>,
    << itemAt(0, U + U \div 2, RestY, U \div 2, 0, DIRT, 480, 1),
       itemAt(1, U + U \div 2, RestY, U + U \div 2, 0, DIRT, 0, 2),
       itemAt(2, U + U \div 2, RestY, U \div 2, 0, STONE, 0, 1),
       itemAt(3, 3 * U + U \div 2, RestY, 2 * U + U \div 2, 0, GRASS, 0, 1),
       itemAt(4, 3 * U + U \div 2, RestY, 3 * U + U \div 2, 0, GRASS, 100, 1) >>,
    << itemAt(0, 3 * U + U \div 2, RestY, 3 * U + U \div 2, 0, DIRT, DESPAWN_TIME - 60, 3),
       itemAt(1, 25 * U + U \div 2, RestY, U \div 2, 0, STONE, 0, 2),
       itemAt(2, 10 * U + U \div 2, 0 - 19 * U, U \div 2, 0 - 20 * U, SAND, 2000, 1) >> }

InitItems ==
  /\ world = GameWorld
  /\ worldVersion = 0
  /\ gen = NoGen
  /\ InitPlayer
  /\ InitMesh
  /\ camRef = CamZero
  /\ holdTouchPos = ScreenCorner
  /\ isHolding = FALSE
  /\ lookTouch = NoTouch
  /\ miningRef = NoMining
  /\ miningProgress = 0
  /\ miningActive = FALSE
  /\ rafRef = FALSE
  /\ rafPending = 0
  /\ curStartTimer = FALSE
  /\ oldStartTimers = 0
  /\ retargetTimers = 0
  /\ droppedItems \in ItemStarts
  /\ nextId = Len(droppedItems)
  /\ inventory = createFullInventory
  /\ inventoryRef = createFullInventory
  /\ selectedIndex = 0
  /\ craftingTableOpen = FALSE
  /\ screen = NoScreen
  /\ rayResult = NoRay
  /\ lastOp = NoOp

\* blocks are mined with the left button while the item frames run
NextItems ==
  \/ onMouseDown(0)
  \/ onMouseUp
  \/ RetargetTimer
  \/ \E dt \in MineDts : miningLoop(dt)
  \/ \E delta \in ItemDeltas : ItemsFrame(delta)

SpecItems == InitItems /\ [][NextItems]_vars

\* the sum of count over the dropped items of type bt
RECURSIVE dropSumFrom(_, _, _)
dropSumFrom(items, bt, i) ==
  IF i > Len(items) THEN 0
  ELSE (IF items[i].blockType = bt THEN items[i].count ELSE 0)
       + dropSumFrom(items, bt, i + 1)
dropSum(items, bt) == dropSumFrom(items, bt, 1)

ItemTypes == {GRASS, DIRT, STONE, SAND}

\* the item may leave in a frame of dt ms without being picked up: by age, by
\* distance from the player or by falling below y = -20
mayDespawn(item, dt) ==
  \/ item.age + dt > DESPAWN_TIME
  \/ dist2(pos.x - item.x, 0, pos.z - item.z) > radius2(DESPAWN_DISTANCE)
  \/ item.y < 0 - 18 * U

\* C32: dropped-item count conservation -- the sum of count over the dropped
\* items of a type grows only by 1, in a step that removes a block of that
\* type from the world, and every block removed adds 1; a frame never raises
\* it and never hands the inventory more than it takes from the sum; when no
\* item of the type can despawn, the frame takes from the sum exactly what
\* onPickup adds to the inventory, so a merge changes nothing and a picked-up
\* item is gone; and while every item of the type is at most 0.5 s old after
\* the frame, nothing of the type is picked up.
DroppedCountConservation ==
  [][
      /\ \A bt \in ItemTypes :
           LET before == dropSum(droppedItems, bt)
               after == dropSum(droppedItems', bt)
               mined == {k \in DOMAIN world \ DOMAIN world' : world[k] = bt}
           IN  /\ after > before => after = before + 1 /\ mined # {}
               /\ mined # {} => after = before + 1 /\ Cardinality(mined) = 1
      /\ \A delta \in ItemDeltas :
           ItemsFrame(delta) =>
             \A ty \in ItemTypes :
               LET dt == Min(delta, 50)
                   before == dropSum(droppedItems, ty)
                   after == dropSum(droppedItems', ty)
                   gain == countIn(inventory', ty, TOTAL_SLOTS)
                             - countIn(inventory, ty, TOTAL_SLOTS)
                   ofType == {i \in 1..Len(droppedItems) : droppedItems[i].blockType = ty}
               IN  /\ after <= before
                   /\ 0 <= gain /\ gain <= before - after
                   /\ (\A i \in ofType : ~mayDespawn(droppedItems[i], dt))
                        => before - after = gain
                   /\ (\A i \in ofType : droppedItems[i].age + dt <= 500)
                        => gain = 0
    ]_vars

\* two dirt items were merged and the three units picked up in one frame,
\* while the two grass items out of reach were merged and stay
MergedStackPickedUp ==
  /\ lastOp = [op |-> "itemsFrame", out |-> "pickup"]
  /\ countIn(inventory, DIRT, TOTAL_SLOTS) = 3
  /\ dropSum(droppedItems, DIRT) = 0
  /\ dropSum(droppedItems, STONE) = 1
  /\ \E i \in DOMAIN droppedItems :
       droppedItems[i].blockType = GRASS /\ droppedItems[i].count = 2

\* ---- onPickup: one unit into the inventory --------------------------------
MaxCount == 4
PickTypes == {DIRT, STONE, SAND}

\* onPickup(blockType): setInventory(inv => addToInventory(inv, blockType))
onPickup(blockType) ==
  /\ \A i \in DOMAIN inventory : inventory[i].count <= MaxCount
  /\ inventory' = addToInventory(inventory, blockType)
  /\ lastOp' = [op |-> "onPickup",
                out |-> IF inventory' = inventory THEN "full" ELSE "added"]
  /\ UNCHANGED screen
  /\ gameUnchanged

\* the inventories picked into: empty; two stacks of dirt around an empty
\* slot; every slot taken, by dirt and sand (stacks split in the inventory
\* screen), with no stone
PickupInventories ==
  { createFullInventory,
    [createFullInventory EXCEPT ![0] = Slot(DIRT, 1), ![2] = Slot(DIRT, 2),
                                ![3] = Slot(SAND, 1)],
    [i \in 0..(TOTAL_SLOTS - 1) |->
       IF i < 2 THEN Slot(DIRT, 1) ELSE IF i = 2 THEN Slot(SAND, 1)
       ELSE Slot(DIRT, MaxCount)] }

InitPickup == \E inv \in PickupInventories : InitScreenIn(inv, NoScreen)
NextPickup == \E blockType \in PickTypes : onPickup(blockType)
SpecPickup == InitPickup /\ [][NextPickup]_vars

\* C33: addToInventory raises the total count of the picked block type by
\* exactly 1 and leaves every other type's total as it was, for every inventory
AddsExactlyOne ==
  [][\A blockType \in PickTypes :
       onPickup(blockType) =>
         \A ty \in PickTypes :
           countIn(inventory', ty, TOTAL_SLOTS)
             = countIn(inventory, ty, TOTAL_SLOTS)
               + (IF ty = blockType THEN 1 ELSE 0)]_vars

\* ---- What the world map holds ----------------------------------------------
\* the game with a stick, crafted earlier, in the second hot bar slot
ContentInventory == [createFullInventory EXCEPT ![1] = Slot(STICK, 1)]

InitContent ==
  /\ world = GameWorld
  /\ worldVersion = 0
  /\ gen = NoGen
  /\ InitPlayer
  /\ InitMesh
  /\ camRef = CamZero
  /\ holdTouchPos = ScreenCorner
  /\ isHolding = FALSE
  /\ lookTouch = NoTouch
  /\ miningRef = NoMining
  /\ miningProgress = 0
  /\ miningActive = FALSE
  /\ rafRef = FALSE
  /\ rafPending = 0
  /\ curStartTimer = FALSE
  /\ oldStartTimers = 0
  /\ retargetTimers = 0
  /\ droppedItems = << >>
  /\ nextId = 0
  /\ inventory = ContentInventory
  /\ inventoryRef = ContentInventory
  /\ selectedIndex = 0
  /\ craftingTableOpen = FALSE
  /\ screen = NoScreen
  /\ rayResult = NoRay
  /\ lastOp = NoOp

SpecContent == InitContent /\ [][Next]_vars

\* BlockType without AIR
PlaceableTypes ==
  {GRASS, DIRT, STONE, WOOD, SAND, WATER, LEAVES, SNOW, PLANKS, CRAFTING_TABLE}

\* C34: world content invariant -- every entry of the world map holds a
\* placeable block type: never the explicit air value, never an item
\* pseudo-type (stick, wooden axe)
WorldHoldsBlocks == \A k \in DOMAIN world : world[k] \in PlaceableTypes

\* a block has been mined and one placed on a cell that was empty, and the
\* right click with the stick selected has been refused
StickRefusedAfterEdits ==
  /\ lastOp = [op |-> "placeBlock", out |-> "item"]
  /\ \E k \in DOMAIN GameWorld : k \notin DOMAIN world
  /\ \E k \in DOMAIN world : k \notin DOMAIN GameWorld

\* ---- Jumping ---------------------------------------------------------------
\* frames enough for a jump under the low ceiling to end on the floor again
MaxJumpTicks == 4
JumpDeltas == {16, 50}
JumpMoves == {<<0, 0>>, <<1000, 0>>}
JUMP_VELOCITY == (95 * U) \div 10
TERMINAL_VELOCITY == (0 - 20) * U

JumpFrame(delta, mv) ==
  /\ ticks < MaxJumpTicks
  /\ useFrame(delta, mv, <<0, 1000>>, ticks + 1)

NextJump ==
  \/ \E delta \in JumpDeltas : \E mv \in JumpMoves : JumpFrame(delta, mv)
  \/ onJump

SpecJump == InitPhys /\ [][NextJump]_vars

\* moveY returned onGround: true
reportedGround(move) == move.branch \in {"rest", "land", "snap", "stop"}

\* C35: jump only from the ground -- a jump event changes the vertical
\* velocity, to 9.5, only when the on-ground flag is set, and clears the flag;
\* the flag is set again only by a frame whose moveY reported onGround, so
\* such a frame lies between two accepted jumps; the vertical velocity is
\* between -20 and 9.5 in every state
JumpOnlyFromGround ==
  /\ [](velY >= TERMINAL_VELOCITY /\ velY <= JUMP_VELOCITY)
  /\ [][/\ (onJump /\ onGround) => (velY' = JUMP_VELOCITY /\ ~onGround')
        /\ (onJump /\ ~onGround) => UNCHANGED <<velY, onGround>>
        /\ (~onGround /\ onGround')
             => (ticks' = ticks + 1 /\ reportedGround(lastMove'))]_vars

\* a jump was accepted after the third frame, under the low ceiling: the
\* player is off the ground with the jump velocity
JumpAccepted ==
  /\ ticks >= 3
  /\ velY = JUMP_VELOCITY
  /\ ~onGround
  /\ Floor(pos.x) = 0 /\ Floor(pos.z) = 0

\* ---- One mining session, one frame callback --------------------------------
\* C36: mining session singleton -- in every state at most one mining
\* animation-frame callback is scheduled, and it is the one miningRafRef
\* holds; a callback that runs either ticks the session miningRef holds at
\* that moment (adding its dt, or breaking the block and ending the session)
\* or finds no session, stops and schedules nothing; this for presses,
\* releases, touch moves, completions and the 50 ms and 200 ms timers in any
\* order
MiningSessionSingleton ==
  /\ [](/\ rafPending <= 1
        /\ rafRef <=> rafPending = 1
        /\ miningRef.active <=> rafPending = 1)
  /\ [][\A dt \in MineDts :
          miningLoop(dt) =>
            IF miningRef.active
            THEN \/ miningRef' = NoMining /\ lastOp' = Broken /\ rafPending' = 0
                 \/ /\ miningRef' = [miningRef EXCEPT !.elapsed = @ + dt]
                    /\ rafPending' = 1
            ELSE miningRef' = NoMining /\ rafPending' = 0 /\ ~miningActive']_vars

\* after a block was broken, with a look touch down, a later session has been
\* ticked by its callback and the next callback is scheduled
CallbackTicksLaterSession ==
  /\ miningRef.active
  /\ miningRef.elapsed > 0
  /\ rafPending = 1
  /\ worldVersion > 0
  /\ lookTouch.active

\* ---- The aim of a re-target -------------------------------------------------
\* the session startMining leaves behind when its raycast returned result
sessionAimedBy(result) ==
  IF result.hit
  THEN /\ miningRef'.active
       /\ miningRef'.targetKey = posKey(result.x, result.y, result.z)
  ELSE ~miningRef'.active

\* C37: re-target keeps the aiming mode -- when the 50 ms re-target runs
\* while the mouse button is still held, the next target is the block hit by
\* the raycast along the look direction from the camera position, the cast the
\* press used
RetargetKeepsAim ==
  [][(RetargetTimer /\ isHolding) => sessionAimedBy(aimRaycast(NullType))]_vars

\* ---- Release of the superseded geometry ------------------------------------
\* the state geo is on the mesh element
geoCommitted == geo = NoGeo \/ renderer.geometry = geo.id

\* the setTimeout callback when React calls the updater inside setGeo, as it
\* does for a component with no update pending: prev is disposed and the new
\* state is queued; the mesh element keeps its geometry until the render
BuildTimerEager(t) ==
  /\ t \in buildTimers
  /\ geoCommitted
  /\ buildTimers' = buildTimers \ {t}
  /\ IF t.id # buildIdRef
     THEN /\ lastBuild' = "stale"
          /\ UNCHANGED <<geo, renderer>>
     ELSE /\ lastBuild' = "applied"
          /\ geo' = [id |-> t.id, version |-> t.version, built |-> worldVersion,
                     mesh |-> buildMesh(world)]
          /\ renderer' = [renderer EXCEPT !.disposed = disposeOf(geo, @)]
  /\ UNCHANGED <<buildIdRef, chunkVersion, worldVars, physVars, gameVars>>

\* the render scheduled by setGeo: <mesh geometry={geo} />
CommitGeo ==
  /\ ~geoCommitted
  /\ renderer' = [renderer EXCEPT !.geometry = geo.id]
  /\ UNCHANGED <<buildIdRef, chunkVersion, buildTimers, geo, lastBuild,
                 worldVars, physVars, gameVars>>

\* a frame of the canvas draws the mesh element's geometry
DrawFrame ==
  /\ renderer.geometry # 0
  /\ renderer' = [renderer EXCEPT !.drawn = renderer.geometry,
                     !.drewDisposed = renderer.geometry \in renderer.disposed]
  /\ UNCHANGED <<buildIdRef, chunkVersion, buildTimers, geo, lastBuild,
                 worldVars, physVars, gameVars>>

NextGeo ==
  \/ WorldEdit
  \/ geoCommitted /\ VoxelChunkEffect
  \/ \E t \in buildTimers : geoCommitted /\ BuildTimer(t)
  \/ \E t \in buildTimers : BuildTimerEager(t)
  \/ CommitGeo
  \/ DrawFrame

SpecGeo == InitMeshSpec /\ [][NextGeo]_vars

\* the previous geometry is disposed in the step that applies a new one
PreviousDisposedOnApply ==
  [][(geo' # geo /\ geo # NoGeo) => geo.id \in renderer'.disposed]_vars

\* the applied geometry is not disposed, and every geometry applied before it is
OneLiveGeometry ==
  /\ geo # NoGeo => geo.id \notin renderer.disposed
  /\ \A id \in renderer.disposed : id < geo.id

\* C38: geometry release -- the geometry applied before a newly applied one is
\* disposed in the same step, the applied geometry is the only one not
\* disposed, and no frame draws a geometry that has been disposed
GeometryRelease ==
  /\ PreviousDisposedOnApply
  /\ []OneLiveGeometry
  /\ [](~renderer.drewDisposed)

\* ---- The two passes of buildMesh --------------------------------------------
\* for (const [key, blockType] of world): the keys in the order the Map
\* yields them; any order gives the same counts, the least key first is taken
RECURSIVE keysOf(_)
keysOf(ks) ==
  IF ks = {} THEN << >>
  ELSE LET k == CHOOSE a \in ks : \A b \in ks :
                  \/ a[1] < b[1]
                  \/ a[1] = b[1] /\ a[2] < b[2]
                  \/ a[1] = b[1] /\ a[2] = b[2] /\ a[3] <= b[3]
       IN  <<k>> \o keysOf(ks \ {k})

\* the two continue statements of the counting pass
countsFace(w, x, y, z, blockType, f) ==
  LET dir == FACES[f]
      neighbor == getOrAir(w, posKey(x + dir[1], y + dir[2], z + dir[3]))
  IN  /\ ~(neighbor # AIR /\ neighbor # LEAVES)
      /\ ~(blockType = LEAVES /\ neighbor = LEAVES)

\* a fill pass that leaves out the rule for two leaves
fillsFaceOfLeaves(w, x, y, z, blockType, f) ==
  LET dir == FACES[f]
      neighbor == getOrAir(w, posKey(x + dir[1], y + dir[2], z + dir[3]))
  IN  ~(neighbor # AIR /\ neighbor # LEAVES)

\* the two continue statements of the fill pass
fillsFace(w, x, y, z, blockType, f) ==
  LET dir == FACES[f]
      neighbor == getOrAir(w, posKey(x + dir[1], y + dir[2], z + dir[3]))
  IN  /\ ~(neighbor # AIR /\ neighbor # LEAVES)
      /\ ~(blockType = LEAVES /\ neighbor = LEAVES)

\* first pass: entries and faceCount
RECURSIVE countPass(_, _, _)
countPass(w, keys, acc) ==
  IF keys = << >> THEN acc
  ELSE LET key == Head(keys)
           blockType == w[key]
           faces == Cardinality({f \in 1..6 :
                       countsFace(w, key[1], key[2], key[3], blockType, f)})
       IN  IF blockType = AIR THEN countPass(w, Tail(keys), acc)
           ELSE countPass(w, Tail(keys),
                  [entries |-> Append(acc.entries,
                                      <<key[1], key[2], key[3], blockType>>),
                   faceCount |-> acc.faceCount + faces])

\* the buffers after allocation: their lengths, the cells written so far with
\* the number of writes, the index values, and the quads
newBuffers(faceCount) ==
  [vi |-> 0, fi |-> 0, vertexCells |-> faceCount * 4 * 3, uvCells |-> faceCount * 4 * 2,
   indexCells |-> faceCount * 6, positions |-> {}, uvs |-> {}, indices |-> {},
   writes |-> 0, quads |-> {}]

\* the body of the fill pass for one face that is not skipped
writeFace(b, x, y, z, f) ==
  LET vOffset == b.vi
      vi == b.vi + 4
      ui == (vi - 4) * 2
      ii == b.fi * 6
      corner == <<0, 1, 2, 0, 2, 3>>
  IN  [b EXCEPT !.vi = vi,
                !.fi = b.fi + 1,
                !.positions = @ \cup {vOffset * 3 + c : c \in 0..11},
                !.uvs = @ \cup {ui + c : c \in 0..7},
                !.indices = @ \cup {<<ii + c, vOffset + corner[c + 1]>> : c \in 0..5},
                !.writes = @ + 1,
                !.quads = @ \cup {<<x, y, z, f>>}]

\* the fill pass at face f of entry en: skipped or written
fillFace(w, b, en, f) ==
  IF fillsFace(w, en[1], en[2], en[3], en[4], f)
  THEN writeFace(b, en[1], en[2], en[3], f)
  ELSE b

\* for (let f = 0; f < 6; f++) of the fill pass, for one entry
fillEntry(w, b, en) ==
  LET b1 == fillFace(w, b, en, 1)
      b2 == fillFace(w, b1, en, 2)
      b3 == fillFace(w, b2, en, 3)
      b4 == fillFace(w, b3, en, 4)
      b5 == fillFace(w, b4, en, 5)
  IN  fillFace(w, b5, en, 6)

\* second pass: the buffers after the first e entries
RECURSIVE fillPass(_, _, _, _)
fillPass(w, entries, e, faceCount) ==
  IF e = 0 THEN newBuffers(faceCount)
  ELSE fillEntry(w, fillPass(w, entries, e - 1, faceCount), entries[e])

twoPasses(w) ==
  LET counted == countPass(w, keysOf(DOMAIN w), [entries |-> << >>, faceCount |-> 0])
  IN  [faceCount |-> counted.faceCount, entries |-> counted.entries,
       buffers |-> fillPass(w, counted.entries, Len(counted.entries),
                            counted.faceCount)]

\* C39: two-pass consistency in buildMesh -- the fill pass writes as many faces
\* as the counting pass counted, so the vertex, uv and index buffers are
\* written in every cell, once per cell and in no cell outside their length,
\* and the six indices of a face are among that face's own four vertices; the
\* faces written are the faces of the geometry that is applied
TwoPassConsistency ==
  [][geo' # geo =>
       LET r == twoPasses(world)
           b == r.buffers
       IN  /\ b.fi = r.faceCount
           /\ b.vi = 4 * r.faceCount
           /\ b.positions = 0..(b.vertexCells - 1)
           /\ b.uvs = 0..(b.uvCells - 1)
           /\ {i[1] : i \in b.indices} = 0..(b.indexCells - 1)
           /\ Cardinality(b.indices) = b.indexCells
           /\ b.writes * 6 = b.indexCells
           /\ \A i \in b.indices :
                i[2] \in (4 * (i[1] \div 6))..(4 * (i[1] \div 6) + 3)
           /\ b.quads = geo'.mesh]_vars

\* a geometry is applied for a world with water placed on the enclosed stone:
\* some faces are culled, the others are written
CulledFacesWritten ==
  /\ geo # NoGeo /\ geo.built = worldVersion
  /\ has(world, <<1, 2, 1>>) /\ world[<<1, 2, 1>>] = WATER
  /\ has(world, <<4, 1, 1>>)
  /\ twoPasses(world).faceCount = Cardinality(geo.mesh)
  /\ twoPasses(world).faceCount < 6 * Len(twoPasses(world).entries)
  /\ twoPasses(world).buffers.fi > 0

====
